---------------------------- MODULE Spec2Model ----------------------------
(***************************************************************************)
(* Search orchestration and result fusion of part-logic                    *)
(* (backend/app/api/routes/search.py, backend/app/utils/interchange.py).   *)
(*                                                                         *)
(* The specifications of the module:                                        *)
(*   Spec / FairSpec  one search request at a time fanning out to the      *)
(*                    connectors through _run_connector, with the shared   *)
(*                    Redis cache (reachable) and its TTL expiry;          *)
(*   OutageSpec       the same with Redis outages;                         *)
(*   RouteSpec        _get_connector_routing and the task selection of     *)
(*                    search_parts over registry states and analyses;      *)
(*   InterSpec        build_interchange_group and the legacy               *)
(*                    enrich_with_cross_references over provider outcomes; *)
(*   PhaseSpec        the awaits of search_parts and the subtasks it       *)
(*                    starts, with cancellation of the request;            *)
(*   FusionSpec       deduplicate_listings / deduplicate_links,            *)
(*                    rank_listings and group_listings over listings;      *)
(*   AnalysisSpec     analyze_query over token sequences;                  *)
(*   OverallSpec      requests served through the overall response cache;  *)
(*   SharedKeySpec    concurrent _run_connector calls on one cache key;    *)
(*   PipelineSpec     the listings of a search from the gathered results   *)
(*                    to the response.                                     *)
(* Strings that the code transforms are sequences of one-character         *)
(* strings; None and "" are both the empty sequence where the code only    *)
(* tests truthiness.                                                       *)
(***************************************************************************)
EXTENDS Integers, Sequences, FiniteSets, TLC

VARIABLES
    cache,        \* Redis: cache key -> stored JSON value or NoValue
    redisUp,      \* whether Redis answers (get/setex raise when it does not)
    task,         \* connector name -> the _run_connector coroutine of the running search
    searchPc,     \* search_parts: "idle" | "gathering" | "responded"
    response,     \* the aggregate built after asyncio.gather
    route,        \* RouteSpec: registry state, analysis and the routing decision
    inter,        \* InterSpec: analysis, provider outcomes and the interchange result
    phase,        \* PhaseSpec: search_parts' position and the state of its subtasks
    fusion,       \* FusionSpec: a call of a dedup, ranking or grouping function
    qa,           \* AnalysisSpec: a query and its analysis
    overall,      \* OverallSpec: requests served through the overall response cache
    shared,       \* SharedKeySpec: concurrent _run_connector calls on one cache key
    pipeline      \* PipelineSpec: the listings of one search on their way to the response

ovars == <<cache, redisUp, task, searchPc, response>>
vars == <<cache, redisUp, task, searchPc, response, route, inter, phase, fusion, qa,
          overall, shared, pipeline>>

\* The value of a variable that takes no part in the specification at hand.
Absent == [absent |-> TRUE]

-----------------------------------------------------------------------------
(* Bounds and program constants *)

NumConnectors == 2

connector_timeout == 15

ConnectorNames == <<"ebay", "rockauto", "partsgeek", "row52">>

Connectors == {ConnectorNames[i] : i \in 1..NumConnectors}

\* Queries handed to _run_connector: one already in key form, and a raw
\* one with lower case and blanks that get_cache_key folds onto the same key.
Queries == {<<"9", "4", "_", "B", "P">>, <<" ", "9", "4", " ", "b", "p">>}

-----------------------------------------------------------------------------
(* Strings *)

LowerLetters == <<"a", "b", "c", "d", "e", "f", "g", "h", "i", "j", "k", "l", "m", "n", "o", "p", "q", "r", "s", "t", "u", "v", "w", "x", "y", "z">>

UpperLetters == <<"A", "B", "C", "D", "E", "F", "G", "H", "I", "J", "K", "L", "M", "N", "O", "P", "Q", "R", "S", "T", "U", "V", "W", "X", "Y", "Z">>

ToUpper ==
    [ch \in {LowerLetters[i] : i \in 1..26} |->
        UpperLetters[CHOOSE i \in 1..26 : LowerLetters[i] = ch]]

\* str.upper() on the characters and the whole strings the model uses.
Upper(ch) ==
    IF ch \in DOMAIN ToUpper THEN ToUpper[ch]
    ELSE CASE ch = "a1" -> "A1"
           [] ch = "p1" -> "P1"
           [] ch = "Meyle" -> "MEYLE"
           [] ch = "Uro" -> "URO"
           [] OTHER -> ch

UpperStr(s) == [i \in 1..Len(s) |-> Upper(s[i])]

RECURSIVE LStrip(_)
LStrip(s) == IF s # <<>> /\ Head(s) = " " THEN LStrip(Tail(s)) ELSE s

RECURSIVE RStrip(_)
RStrip(s) ==
    IF s # <<>> /\ s[Len(s)] = " " THEN RStrip(SubSeq(s, 1, Len(s) - 1)) ELSE s

\* BaseConnector.get_cache_key: f"{source_name}:{query.upper().strip().replace(' ', '_')}"
get_cache_key(source_name, query) ==
    LET upper == UpperStr(query)
        stripped == RStrip(LStrip(upper))
        normalized == [i \in 1..Len(stripped) |->
                          IF stripped[i] = " " THEN "_" ELSE stripped[i]]
    IN <<source_name, ":">> \o normalized

AllKeys == {get_cache_key(c, q) : c \in Connectors, q \in Queries}

-----------------------------------------------------------------------------
(* Connector results and their JSON form *)

NoValue == [absent |-> TRUE]

Model(u) == [kind |-> "model", url |-> u]
Dict(u) == [kind |-> "dict", url |-> u]

\* What connector.search may return (base.py: lists of MarketListing,
\* SalvageHit, ExternalLink objects; plain dicts are accepted downstream).
SearchResults ==
    { [market_listings |-> <<Model("u1")>>, salvage_hits |-> <<>>,
       external_links |-> <<Model("e1")>>, error |-> <<>>],
      [market_listings |-> <<Dict("u2")>>, salvage_hits |-> <<>>,
       external_links |-> <<>>, error |-> <<>>],
      [market_listings |-> <<>>, salvage_hits |-> <<>>,
       external_links |-> <<>>, error |-> <<"blocked">>] }

\* Exceptions connector.search may raise; str(e) may be empty.
Exceptions ==
    { [kind |-> "Exception", msg |-> <<"boom">>],
      [kind |-> "Exception", msg |-> <<>>],
      [kind |-> "TimeoutError", msg |-> <<>>] }

AllItems(res) == res.market_listings \o res.salvage_hits \o res.external_links

\* json.dumps has no encoder for pydantic models: TypeError.
JsonSerializable(res) ==
    \A i \in 1..Len(AllItems(res)) : AllItems(res)[i].kind = "dict"

\* json.dumps(result): the stored text, or TypeError.
JsonDumps(res) ==
    IF JsonSerializable(res) THEN [text |-> res] ELSE [raised |-> "TypeError"]

\* json.loads(cached)
JsonLoads(stored) == stored.text

\* get_cached_result (search.py 144-153): the decoded value, or NoValue on a
\* miss, an empty value or a Redis error (logged only).
get_cached_result(cache_key) ==
    IF redisUp /\ cache[cache_key] # NoValue
    THEN JsonLoads(cache[cache_key])
    ELSE NoValue

\* What a read that returned None met: client.get raising is logged only.
ReadOutcome == IF redisUp THEN "miss" ELSE "failed"

\* set_cached_result (search.py 156-162): the outcome of the write.
\* json.dumps is evaluated before setex is sent, both inside the try.
WriteOutcome(res) ==
    IF "raised" \in DOMAIN JsonDumps(res) THEN "unserializable"
    ELSE IF ~redisUp THEN "unreachable"
    ELSE "ok"

\* Variant: a write adds its listings to those of the entry it finds.
set_cached_result_Merged(cache_key, res) ==
    IF WriteOutcome(res) # "ok" THEN cache
    ELSE IF cache[cache_key] = NoValue THEN [cache EXCEPT ![cache_key] = JsonDumps(res)]
    ELSE [cache EXCEPT ![cache_key] =
            JsonDumps([res EXCEPT !.market_listings =
                                      JsonLoads(cache[cache_key]).market_listings \o @])]

set_cached_result(cache_key, res) ==
    IF WriteOutcome(res) = "ok"
    THEN [cache EXCEPT ![cache_key] = JsonDumps(res)]
    ELSE cache

-----------------------------------------------------------------------------
(* _run_connector (search.py 165-214) *)

NoResult == [absent |-> TRUE]
NoOutcome == [kind |-> "none"]

IdleTask ==
    [pc |-> "none", query |-> <<>>, outcome |-> NoOutcome, calls |-> 0,
     read |-> "none", write |-> "none", lapsed |-> FALSE, result |-> NoResult]

Tagged(res, status, source) ==
    [market_listings |-> res.market_listings,
     salvage_hits |-> res.salvage_hits,
     external_links |-> res.external_links,
     error |-> res.error,
     status |-> status,
     source |-> source]

\* f"Timed out after {settings.connector_timeout}s"
TimedOutMessage == <<"Timed out after ", connector_timeout, "s">>

ErrorResult(message, source) ==
    [market_listings |-> <<>>, salvage_hits |-> <<>>, external_links |-> <<>>,
     error |-> message, status |-> "error", source |-> source]

\* search.py 177-179: {**cached, "_status": "cached", "_source": source_name}
\* Variant: a cache hit tagged like a fresh result.
CachedResult_AsFresh(cached, source) == Tagged(cached, "ok", source)

CachedResult(cached, source) == Tagged(cached, "cached", source)

\* Variant: an unreachable cache marks the result as an error.
ReturnedResult_Surfaced(res, source) ==
    Tagged(res, IF redisUp /\ res.error = <<>> THEN "ok" ELSE "error", source)

\* search.py 188-189
ReturnedResult(res, source) ==
    Tagged(res, IF res.error = <<>> THEN "ok" ELSE "error", source)

\* search.py 193-214: except TimeoutError / except Exception
RaisedResult(exc, source) ==
    IF exc.kind = "TimeoutError"
    THEN ErrorResult(TimedOutMessage, source)
    ELSE ErrorResult(exc.msg, source)

\* Variant: one deadline shared by the whole fan-out.
TimedOutTasks_Shared(c) == Connectors

\* asyncio.wait_for guards one connector.search: only that task is cut off.
TimedOutTasks(c) == {c}


\* await get_cached_result(cache_key); a hit returns without calling search.
CacheRead(c) ==
    /\ searchPc = "gathering"
    /\ task[c].pc = "reading"
    /\ LET cached == get_cached_result(get_cache_key(c, task[c].query)) IN
         IF cached # NoValue
         THEN task' = [task EXCEPT ![c].pc = "done",
                                   ![c].read = "hit",
                                   ![c].outcome = [kind |-> "hit", value |-> cached],
                                   ![c].result = CachedResult(cached, c)]
         ELSE task' = [task EXCEPT ![c].pc = "searching",
                                   ![c].read = ReadOutcome,
                                   ![c].calls = task[c].calls + 1]
    /\ UNCHANGED <<cache, redisUp, searchPc, response, route, inter, phase, fusion, qa, overall, shared, pipeline>>

\* connector.search returns within the deadline; next await is the cache write.
SearchReturns(c, res) ==
    /\ task[c].pc = "searching"
    /\ task' = [task EXCEPT ![c].pc = "writing",
                            ![c].outcome = [kind |-> "return", value |-> res]]
    /\ UNCHANGED <<cache, redisUp, searchPc, response, route, inter, phase, fusion, qa, overall, shared, pipeline>>

\* await set_cached_result(cache_key, result), then the status tags.
CacheWrite(c) ==
    /\ task[c].pc = "writing"
    /\ LET res == task[c].outcome.value
           key == get_cache_key(c, task[c].query)
       IN /\ cache' = set_cached_result(key, res)
          /\ task' = [task EXCEPT ![c].pc = "done",
                                  ![c].write = WriteOutcome(res),
                                  ![c].result = ReturnedResult(res, c)]
    /\ UNCHANGED <<redisUp, searchPc, response, route, inter, phase, fusion, qa, overall, shared, pipeline>>

\* connector.search raises.
SearchRaises(c, exc) ==
    /\ task[c].pc = "searching"
    /\ task' = [task EXCEPT ![c].pc = "done",
                            ![c].outcome = [kind |-> "raise", value |-> exc],
                            ![c].result = RaisedResult(exc, c)]
    /\ UNCHANGED <<cache, redisUp, searchPc, response, route, inter, phase, fusion, qa, overall, shared, pipeline>>

\* asyncio.wait_for cancels connector.search at the deadline.
SearchTimesOut(c) ==
    /\ task[c].pc = "searching"
    /\ task' = [d \in Connectors |->
                  IF d \in TimedOutTasks(c) /\ task[d].pc = "searching"
                  THEN [task[d] EXCEPT !.pc = "done",
                                       !.outcome = [kind |-> "timeout"],
                                       !.result = ErrorResult(TimedOutMessage, d)]
                  ELSE task[d]]
    /\ UNCHANGED <<cache, redisUp, searchPc, response, route, inter, phase, fusion, qa, overall, shared, pipeline>>

-----------------------------------------------------------------------------
(* search_parts: fan-out, gather and aggregation (search.py 370-467) *)

NoResponse == [absent |-> TRUE]

\* The running search's results in task order, as asyncio.gather returns them.
Gathered == [i \in 1..NumConnectors |-> task[ConnectorNames[i]].result]

ResultCount(res) ==
    Len(res.market_listings) + Len(res.salvage_hits) + Len(res.external_links)

\* search.py 457-464: details=error_msg or "Success"
SourceStatus(res) ==
    [source |-> res.source, status |-> res.status,
     details |-> IF res.error # <<>> THEN res.error ELSE <<"Success">>,
     result_count |-> ResultCount(res)]

\* search.py 466-467: if error_msg: warnings.append(f"{source_name}: {error_msg}")
WarningsOf(res) ==
    IF res.error # <<>> THEN << <<res.source, ": ">> \o res.error >> ELSE <<>>

\* search.py 430-438: MarketListing(**item) for dicts, the object otherwise.
ListingsOf(res) ==
    [i \in 1..Len(res.market_listings) |->
        [source |-> res.source, url |-> res.market_listings[i].url]]

RECURSIVE Aggregate(_)
Aggregate(results) ==
    IF results = <<>>
    THEN [sources_queried |-> <<>>, warnings |-> <<>>, market_listings |-> <<>>]
    ELSE LET res == results[Len(results)]
             rest == Aggregate(SubSeq(results, 1, Len(results) - 1))
         IN [sources_queried |-> Append(rest.sources_queried, SourceStatus(res)),
             warnings |-> rest.warnings \o WarningsOf(res),
             market_listings |-> rest.market_listings \o ListingsOf(res)]

\* tasks.append(_run_connector(connector, normalized_query, shared_kwargs))
StartSearch(q) ==
    /\ searchPc \in {"idle", "responded"}
    /\ searchPc' = "gathering"
    /\ task' = [c \in Connectors |-> [IdleTask EXCEPT !.pc = "reading", !.query = q]]
    /\ response' = NoResponse
    /\ UNCHANGED <<cache, redisUp, route, inter, phase, fusion, qa, overall, shared, pipeline>>

AllSettled == \A c \in Connectors : task[c].pc = "done"

\* results = await asyncio.gather(*tasks, return_exceptions=True), then the loop.
Join ==
    /\ searchPc = "gathering"
    /\ AllSettled
    /\ searchPc' = "responded"
    /\ response' = Aggregate(Gathered)
    /\ UNCHANGED <<cache, redisUp, task, route, inter, phase, fusion, qa, overall, shared, pipeline>>

-----------------------------------------------------------------------------
(* Environment of the cache *)

\* The TTL of setex (cache_ttl_seconds) lapses for one key.
Expire(k) ==
    /\ cache[k] # NoValue
    /\ cache' = [cache EXCEPT ![k] = NoValue]
    /\ task' = [c \in Connectors |->
                  IF task[c].pc = "done" /\ get_cache_key(c, task[c].query) = k
                  THEN [task[c] EXCEPT !.lapsed = TRUE]
                  ELSE task[c]]
    /\ UNCHANGED <<redisUp, searchPc, response, route, inter, phase, fusion, qa, overall, shared, pipeline>>

\* Redis becomes unreachable, or reachable again.
RedisFlips ==
    /\ redisUp' = ~redisUp
    /\ UNCHANGED <<cache, task, searchPc, response, route, inter, phase, fusion, qa, overall, shared, pipeline>>

-----------------------------------------------------------------------------
(* Connector routing: _get_connector_routing (search.py 56-123) *)

MaxRegistry == 2

\* Registry domains of the model: two with a registered connector, one
\* whose connector is not registered, one with no connector implementation.
Domains == {"ebay.com", "row52.com", "napaonline.com", "example.com"}

\* _DOMAIN_TO_CONNECTOR.get(domain) on those domains; "" is None.
DOMAIN_TO_CONNECTOR(domain) ==
    CASE domain = "ebay.com" -> "ebay"
      [] domain = "row52.com" -> "row52"
      [] domain = "napaonline.com" -> "napa"
      [] OTHER -> ""

\* get_all_connectors(): the registered connectors, in registration order.
RegisteredConnectors == <<"ebay", "rockauto", "row52", "carpart", "resources">>

Registered == {RegisteredConnectors[i] : i \in 1..Len(RegisteredConnectors)}

\* get_connector(name) is not None
get_connector(name) == name \in Registered

Categories == {"retailer", "used_aggregator", "salvage_yard"}

\* Registry entries for the domains of D, one per domain, as `attrs` says.
SourcesOf(D, attrs) ==
    {[domain |-> d, category |-> attrs[d].category,
      supports_part_number_search |-> attrs[d].supports_part_number_search] : d \in D}

\* States of the source registry: unreadable, or a list of active sources
\* with distinct domains.
RegistryStates ==
    {[readable |-> FALSE, sources |-> {}]} \cup
    UNION {{[readable |-> TRUE, sources |-> SourcesOf(D, attrs)] :
               attrs \in [D -> [category : Categories,
                                supports_part_number_search : BOOLEAN]]} :
           D \in {E \in SUBSET Domains : Cardinality(E) <= MaxRegistry}}

DefaultPartNumberSources ==
    {"ebay", "rockauto", "partsouq", "ecstuning", "fcpeuro", "partsgeek", "amazon"}

DefaultVehicleSources == {"row52", "carpart"}

AlwaysSources == {"resources"}

\* Variant: no fallback.
OrDefault_Kept(sources, default) == sources

\* search.py 117-121: "if not pn_sources: pn_sources = {...}"
OrDefault(sources, default) == IF sources = {} THEN default ELSE sources

Routable(src) ==
    /\ DOMAIN_TO_CONNECTOR(src.domain) # ""
    /\ get_connector(DOMAIN_TO_CONNECTOR(src.domain))

get_connector_routing(registry) ==
    IF ~registry.readable
    THEN [pn |-> DefaultPartNumberSources,
          vehicle |-> DefaultVehicleSources,
          always |-> AlwaysSources]
    ELSE LET usable == {src \in registry.sources : Routable(src)}
             vehicle_sources ==
                 {DOMAIN_TO_CONNECTOR(src.domain) :
                     src \in {x \in usable :
                                 x.category \in {"used_aggregator", "salvage_yard"}}}
             pn_sources ==
                 {DOMAIN_TO_CONNECTOR(src.domain) :
                     src \in {x \in usable :
                                 /\ x.category \notin {"used_aggregator", "salvage_yard"}
                                 /\ x.supports_part_number_search}}
         IN [pn |-> OrDefault(pn_sources, DefaultPartNumberSources),
             vehicle |-> OrDefault(vehicle_sources, DefaultVehicleSources),
             always |-> AlwaysSources]

-----------------------------------------------------------------------------
(* Task selection of search_parts (search.py 370-408) *)

QueryTypes == {"PART_NUMBER", "VEHICLE_PART", "KEYWORDS"}

\* The normalized query of the request.
NormalizedQuery == <<"9", "4", "4", "B", "P">>

\* Analyses at the routing point: vehicle hint and part description may each
\* be unset (<<>>); interchange and AI part numbers may have been found.
RouteAnalyses ==
    [query_type : QueryTypes,
     vehicle_hint : {<<>>, <<"9", "4", "4">>},
     part_description : {<<>>, <<"m", "b">>},
     interchange_numbers : {<<>>, << <<"M", "1">> >>},
     ai_part_numbers : {<<>>, << <<"P", "9">> >>}]

\* f"{analysis.vehicle_hint} {analysis.part_description}".upper()
VehicleQuery(analysis) ==
    UpperStr(analysis.vehicle_hint \o <<" ">> \o analysis.part_description)

\* Variant: either hint is enough.
HasVehicleContext_Either(analysis) ==
    analysis.vehicle_hint # <<>> \/ analysis.part_description # <<>>

\* search.py 378: both must be set for the vehicle sources to run.
HasVehicleContext(analysis) ==
    analysis.vehicle_hint # <<>> /\ analysis.part_description # <<>>

\* One _run_connector per connector of `names`, in registration order.
RECURSIVE TasksFor(_, _, _, _)
TasksFor(connectors, names, query, matched) ==
    IF connectors = <<>> THEN <<>>
    ELSE (IF Head(connectors) \in names
          THEN <<[connector |-> Head(connectors), query |-> query,
                  matched_interchange |-> matched]>>
          ELSE <<>>)
         \o TasksFor(Tail(connectors), names, query, matched)

InterchangeSources == {"ebay", "rockauto", "partsgeek"}

max_interchange_searches == 3

\* seq[:n]
Take(seq, n) == SubSeq(seq, 1, IF Len(seq) < n THEN Len(seq) ELSE n)

\* The loops "for pn in pns: for connector in connectors".
RECURSIVE PerNumberTasks(_, _, _)
PerNumberTasks(pns, connectors, names) ==
    IF pns = <<>> THEN <<>>
    ELSE TasksFor(connectors, names, Head(pns), Head(pns))
         \o PerNumberTasks(Tail(pns), connectors, names)

SelectedTasks(analysis, routing) ==
    IF analysis.query_type = "PART_NUMBER"
    THEN TasksFor(RegisteredConnectors, routing.pn \cup routing.always,
                  NormalizedQuery, <<>>)
         \o (IF HasVehicleContext(analysis)
             THEN TasksFor(RegisteredConnectors, routing.vehicle,
                           VehicleQuery(analysis), <<>>)
             ELSE <<>>)
         \o PerNumberTasks(Take(analysis.interchange_numbers, max_interchange_searches),
                           RegisteredConnectors, InterchangeSources)
    ELSE TasksFor(RegisteredConnectors, Registered, NormalizedQuery, <<>>)
         \o PerNumberTasks(Take(analysis.ai_part_numbers, 2), RegisteredConnectors,
                           routing.pn)

\* logger.info("Skipping ... (no vehicle context)") for each vehicle source.
SkippedSources(analysis, routing) ==
    IF analysis.query_type = "PART_NUMBER" /\ ~HasVehicleContext(analysis)
    THEN routing.vehicle \cap Registered
    ELSE {}

NoRoute == [absent |-> TRUE]

NoInter == [absent |-> TRUE]

RouteInit ==
    /\ route \in [pc : {"analysed"}, registry : RegistryStates,
                  analysis : RouteAnalyses, routing : {NoRoute}, tasks : {<<>>},
                  skipped : {{}}]
    /\ inter = NoInter
    /\ cache = [k \in AllKeys |-> NoValue]
    /\ redisUp = TRUE
    /\ task = [c \in Connectors |-> IdleTask]
    /\ searchPc = "idle"
    /\ response = NoResponse
    /\ phase = Absent
    /\ fusion = Absent
    /\ qa = Absent
    /\ overall = Absent
    /\ shared = Absent
    /\ pipeline = Absent

\* PART_NUMBER_SOURCES, VEHICLE_SOURCES, ALWAYS_SOURCES = _get_connector_routing()
GetConnectorRouting ==
    /\ route # NoRoute
    /\ route.pc = "analysed"
    /\ route' = [route EXCEPT !.pc = "routed",
                              !.routing = get_connector_routing(route.registry)]
    /\ UNCHANGED <<cache, redisUp, task, searchPc, response, inter, phase, fusion, qa, overall, shared, pipeline>>

\* The task list handed to asyncio.gather.
SelectTasks ==
    /\ route # NoRoute
    /\ route.pc = "routed"
    /\ route' = [route EXCEPT !.pc = "selected",
                              !.tasks = SelectedTasks(route.analysis, route.routing),
                              !.skipped = SkippedSources(route.analysis, route.routing)]
    /\ UNCHANGED <<cache, redisUp, task, searchPc, response, inter, phase, fusion, qa, overall, shared, pipeline>>

RouteNext == GetConnectorRouting \/ SelectTasks

RouteSpec == RouteInit /\ [][RouteNext]_vars

-----------------------------------------------------------------------------
(* Interchange expansion: interchange.py, cross_reference.py *)

MaxResults == 4

\* Python's ordering of the strings the model sorts.
SortOrder == <<"A1", "B2", "MEYLE", "Meyle", "P1", "P2", "Uro", "a1", "p1">>

\* sorted(S)
Sorted(S) == SelectSeq(SortOrder, LAMBDA x : x \in S)

Range(seq) == {seq[i] : i \in 1..Len(seq)}

NoBrands == [b \in {} |-> <<>>]

\* CrossRefResult; "" stands for None in the optional string fields.
CrossRefResult(source, part_numbers, brands, vehicle_hint, part_description) ==
    [source |-> source, part_numbers |-> part_numbers, brands |-> brands,
     vehicle_hint |-> vehicle_hint, part_description |-> part_description]

\* CrossRefResult(source=...): what a provider returns when it found nothing.
EmptyCrossRef(source) == CrossRefResult(source, <<>>, NoBrands, "", "")

Providers == <<"fcpeuro", "rockauto", "parts-crossreference">>

ProviderSet == {Providers[i] : i \in 1..Len(Providers)}

\* What the provider's page holds for the part number, when it can be
\* fetched and parsed.
PageData(source) ==
    CASE source = "fcpeuro" ->
           {EmptyCrossRef(source),
            CrossRefResult(source, <<"A1">>, [b \in {"Meyle"} |-> <<"A1", "P1">>],
                           "Porsche 944", "Engine Mount")}
      [] source = "rockauto" ->
           {EmptyCrossRef(source),
            CrossRefResult(source, <<"A1", "B2">>, [b \in {"Uro"} |-> <<"B2">>],
                           "", "Motor Mount"),
            CrossRefResult(source, <<>>, NoBrands, "", "Motor Mount")}
      [] OTHER ->
           {EmptyCrossRef(source),
            CrossRefResult(source, <<"a1">>, NoBrands, "Porsche 924", ""),
            CrossRefResult(source, <<>>, [b \in {"Meyle"} |-> <<"P1">>], "", "")}

\* How a provider call can end.  "failed": the fetch or the parsing raised
\* inside the provider's try block, which logs and returns the empty result.
\* "raised": an exception left the coroutine, which only the code after
\* enrich_from_fcpeuro's try block allows.
ProviderOutcomes(source) ==
    {[kind |-> "returned", result |-> r] : r \in PageData(source)}
    \cup {[kind |-> "failed", result |-> EmptyCrossRef(source)]}
    \cup (IF source = "fcpeuro" THEN {[kind |-> "raised"]} ELSE {})

Pending == [kind |-> "pending"]

HasData(r) == r.part_numbers # <<>> \/ DOMAIN r.brands # {}

\* Variant: the two lower steps exchanged.
Confidence_Swapped(sources_with_data) ==
    IF sources_with_data >= 3 THEN 9
    ELSE IF sources_with_data = 2 THEN 5
    ELSE IF sources_with_data = 1 THEN 7
    ELSE 0

\* interchange.py 73-82; confidence is in tenths (9 is 0.9).
Confidence(sources_with_data) ==
    IF sources_with_data >= 3 THEN 9
    ELSE IF sources_with_data = 2 THEN 7
    ELSE IF sources_with_data = 1 THEN 5
    ELSE 0

\* Variant: a later value replaces the one taken.
RECURSIVE FirstSet_Overwritten(_)
FirstSet_Overwritten(values) ==
    IF values = <<>> THEN ""
    ELSE IF values[Len(values)] # "" THEN values[Len(values)]
    ELSE FirstSet_Overwritten(SubSeq(values, 1, Len(values) - 1))

\* interchange.py 62-68: the first truthy value of a list of optional
\* strings, or "".
RECURSIVE FirstSet(_)
FirstSet(values) ==
    IF values = <<>> THEN ""
    ELSE IF Head(values) # "" THEN Head(values)
    ELSE FirstSet(Tail(values))

\* Variant: the primary part number is recognised only as written.
IsPrimary_AsWritten(pn, primary_pn) == pn = primary_pn

\* interchange.py 46 and 53: pn.upper() == primary_upper
IsPrimary(pn, primary_pn) == Upper(pn) = Upper(primary_pn)

\* interchange.py 37-84
merge_cross_ref_results(primary_pn, results) ==
    LET idx == 1..Len(results)
        all_part_numbers ==
            {pn \in UNION {Range(results[i].part_numbers) : i \in idx} :
                ~IsPrimary(pn, primary_pn)}
        brand_names == UNION {DOMAIN results[i].brands : i \in idx}
        brands_map ==
            [b \in brand_names |->
                UNION {Range(results[i].brands[b]) :
                          i \in {j \in idx : b \in DOMAIN results[j].brands}}]
        sources_with_data == Cardinality({i \in idx : HasData(results[i])})
    IN [primary_part_number |-> primary_pn,
        interchange_numbers |-> Sorted(all_part_numbers),
        brands |-> [b \in brand_names |-> Sorted(brands_map[b])],
        vehicle_fitment |-> FirstSet([i \in idx |-> results[i].vehicle_hint]),
        part_description |-> FirstSet([i \in idx |-> results[i].part_description]),
        confidence |-> Confidence(sources_with_data),
        sources_consulted |-> [i \in idx |-> results[i].source]]

None == [none |-> TRUE]

\* interchange.py 113-121: the provider results that reach the merge, in
\* provider order; exceptions are logged and skipped.
RECURSIVE Collected(_, _)
Collected(outcome, providers) ==
    IF providers = <<>> THEN <<>>
    ELSE (IF outcome[Head(providers)].kind = "raised"
          THEN <<>>
          ELSE <<outcome[Head(providers)].result>>)
         \o Collected(outcome, Tail(providers))

\* interchange.py 137-140: append the numbers not yet present, whatever
\* their case, then sort.  The set of known names is taken before the loop.
MergeInto(existing, found) ==
    LET known == {Upper(x) : x \in Range(existing)}
        extra == SelectSeq(found, LAMBDA x : Upper(x) \notin known)
    IN Sorted(Range(existing \o extra))

\* interchange.py 128-147
UpdatedAnalysis(analysis, group) ==
    [analysis EXCEPT
        !.vehicle_hint =
            IF group.vehicle_fitment # "" /\ analysis.vehicle_hint = ""
            THEN group.vehicle_fitment ELSE @,
        !.part_description =
            IF group.part_description # "" /\ analysis.part_description = ""
            THEN group.part_description ELSE @,
        !.cross_references = MergeInto(@, group.interchange_numbers),
        !.brands_found = MergeInto(@, Sorted(DOMAIN group.brands))]

\* cross_reference.py 26-48: the brand names the enrichment recognises, among
\* those of the model's pages.
KNOWN_BRANDS == {"MEYLE", "URO"}

\* str.title() on the brand names the model uses.
TitleCase(brand) ==
    CASE brand = "MEYLE" -> "Meyle"
      [] brand = "URO" -> "Uro"
      [] OTHER -> brand

\* str.lower() on the hints and descriptions the model uses.
LowerCase(text) ==
    CASE text = "Porsche 944" -> "porsche 944"
      [] text = "Porsche 924" -> "porsche 924"
      [] text = "BMW E30" -> "bmw e30"
      [] text = "Engine Mount" -> "engine mount"
      [] text = "Motor Mount" -> "motor mount"
      [] OTHER -> text

\* cross_reference.py 531-586, on the outcome of enrich_from_fcpeuro.  The
\* enriched query is kept as the sequence of its space-separated parts, the
\* quoted part number first.
enrich_with_cross_references(analysis, outcome) ==
    IF analysis.part_numbers = <<>> \/ outcome.kind = "raised" THEN analysis
    ELSE LET result == outcome.result
             primary_pn == analysis.part_numbers[1]
             brands == {IF Upper(b) \in KNOWN_BRANDS THEN TitleCase(b) ELSE b :
                           b \in DOMAIN result.brands}
             vehicle_hint ==
                 IF result.vehicle_hint # "" /\ analysis.vehicle_hint = ""
                 THEN result.vehicle_hint ELSE analysis.vehicle_hint
             part_description ==
                 IF result.part_description # "" /\ analysis.part_description = ""
                 THEN result.part_description ELSE analysis.part_description
             desc_parts ==
                 (IF part_description # "" THEN <<LowerCase(part_description)>> ELSE <<>>)
                 \o (IF vehicle_hint # "" THEN <<LowerCase(vehicle_hint)>> ELSE <<>>)
         IN IF ~HasData(result) THEN analysis
            ELSE [analysis EXCEPT
                    !.cross_references = Sorted(Range(result.part_numbers)),
                    !.brands_found = Sorted(brands),
                    !.vehicle_hint = vehicle_hint,
                    !.part_description = part_description,
                    !.enriched_query =
                        IF desc_parts # <<>> THEN <<primary_pn>> \o desc_parts ELSE @]

\* The analyses build_interchange_group is called with.
InterAnalyses ==
    [query_type : QueryTypes,
     part_numbers : {<<>>, <<"P1">>, <<"P1", "P2">>},
     vehicle_hint : {"", "BMW E30"},
     part_description : {""},
     cross_references : {<<>>, <<"a1">>, <<"B2">>},
     brands_found : {<<>>, <<"MEYLE">>, <<"Uro">>},
     enriched_query : {<<>>}]

Settings == [interchange_enabled : BOOLEAN, scrape_enabled : BOOLEAN]

\* The results _merge_cross_ref_results is called with directly.
MergeInputs ==
    {EmptyCrossRef("a"),
     CrossRefResult("b", <<"A1">>, NoBrands, "", ""),
     CrossRefResult("c", <<>>, NoBrands, "Porsche 944", ""),
     CrossRefResult("d", <<"P1", "A1", "p1">>, [b \in {"Meyle"} |-> <<"P1", "A1">>],
                    "", "Engine Mount")}

RECURSIVE SeqsUpTo(_, _)
SeqsUpTo(S, n) ==
    IF n = 0 THEN {<<>>}
    ELSE LET shorter == SeqsUpTo(S, n - 1)
         IN shorter \cup {Append(q, x) : q \in {r \in shorter : Len(r) = n - 1}, x \in S}

InterInit ==
    /\ inter \in
         [pc : {"start"}, caller : {"search_parts", "direct"}, settings : Settings,
          analysis : InterAnalyses, primary_pn : {""},
          outcome : {[p \in ProviderSet |-> Pending]}, contacted : {{}},
          results : {<<>>}, group : {None}, built : {0}, finished : {<<>>}]
         \cup
         [pc : {"merge"}, caller : {"direct"},
          settings : {[interchange_enabled |-> TRUE, scrape_enabled |-> TRUE]},
          analysis : {[query_type |-> "PART_NUMBER", part_numbers |-> <<"P1">>,
                       vehicle_hint |-> "", part_description |-> "",
                       cross_references |-> <<>>, brands_found |-> <<>>,
                       enriched_query |-> <<>>]},
          primary_pn : {"P1"},
          outcome : {[p \in ProviderSet |-> Pending]}, contacted : {{}},
          results : SeqsUpTo(MergeInputs, MaxResults), group : {None}, built : {0},
          finished : {<<>>}]
    \* search.py 282: search_parts passes on the analysis of analyze_query, which
    \* holds no cross-reference and no brand yet.
    /\ inter.caller = "search_parts" =>
           inter.analysis.cross_references = <<>> /\ inter.analysis.brands_found = <<>>
    /\ route = NoRoute
    /\ cache = [k \in AllKeys |-> NoValue]
    /\ redisUp = TRUE
    /\ task = [c \in Connectors |-> IdleTask]
    /\ searchPc = "idle"
    /\ response = NoResponse
    /\ phase = Absent
    /\ fusion = Absent
    /\ qa = Absent
    /\ overall = Absent
    /\ shared = Absent
    /\ pipeline = Absent

InterRest == UNCHANGED <<cache, redisUp, task, searchPc, response, route, phase, fusion, qa, overall, shared, pipeline>>

\* search.py 297-298: search_parts expands only PART_NUMBER queries, with
\* scraping and interchange enabled.
SearchExpands(i) ==
    /\ i.analysis.query_type = "PART_NUMBER"
    /\ i.settings.scrape_enabled
    /\ i.settings.interchange_enabled

\* search.py 308-310: with interchange disabled, search_parts enriches the
\* analysis from FCP Euro alone.
SearchEnriches(i) ==
    /\ i.analysis.query_type = "PART_NUMBER"
    /\ i.settings.scrape_enabled
    /\ ~i.settings.interchange_enabled

\* search.py 295-318 without a call of build_interchange_group or of
\* enrich_with_cross_references.
SearchSkipsInterchange ==
    /\ inter # NoInter
    /\ inter.pc = "start"
    /\ inter.caller = "search_parts"
    /\ ~SearchExpands(inter)
    /\ ~SearchEnriches(inter)
    /\ inter' = [inter EXCEPT !.pc = "done"]
    /\ InterRest

\* Variant: the interchange_enabled setting is not consulted.
BuildRuns_Always(i) ==
    /\ i.analysis.query_type = "PART_NUMBER"
    /\ i.analysis.part_numbers # <<>>

\* interchange.py 95-102: the three early returns.
BuildRuns(i) ==
    /\ i.settings.interchange_enabled
    /\ i.analysis.query_type = "PART_NUMBER"
    /\ i.analysis.part_numbers # <<>>

BuildCalled ==
    /\ inter # NoInter
    /\ inter.pc = "start"
    /\ inter.caller = "search_parts" => SearchExpands(inter)

BuildReturnsEarly ==
    /\ BuildCalled
    /\ ~BuildRuns(inter)
    /\ inter' = [inter EXCEPT !.pc = "done", !.group = None]
    /\ InterRest

\* interchange.py 104-114: the three provider coroutines are created for the
\* primary part number and awaited together.
FanOut ==
    /\ BuildCalled
    /\ BuildRuns(inter)
    /\ LET primary_pn == inter.analysis.part_numbers[1]
       IN inter' = [inter EXCEPT
                      !.pc = "gathering",
                      !.primary_pn = primary_pn,
                      !.contacted = {[provider |-> p, part_number |-> primary_pn] :
                                        p \in ProviderSet}]
    /\ InterRest

\* One provider coroutine ends.
ProviderSettles(p, o) ==
    /\ inter # NoInter
    /\ inter.pc = "gathering"
    /\ inter.outcome[p] = Pending
    /\ inter' = [inter EXCEPT !.outcome[p] = o, !.finished = Append(@, p)]
    /\ InterRest

\* interchange.py 114-148, once gather has every provider's outcome.
MergeAndReturn ==
    /\ inter # NoInter
    /\ inter.pc = "gathering"
    /\ \A p \in ProviderSet : inter.outcome[p] # Pending
    /\ LET results == Collected(inter.outcome, Providers)
           group == merge_cross_ref_results(inter.primary_pn, results)
       IN IF results = <<>>
          THEN inter' = [inter EXCEPT !.pc = "done", !.results = results,
                                      !.group = None]
          ELSE inter' = [inter EXCEPT !.pc = "done", !.results = results,
                                      !.group = group,
                                      !.built = @ + 1,
                                      !.analysis = UpdatedAnalysis(@, group)]
    /\ InterRest

\* enrich_with_cross_references run to its return, by search_parts (search.py
\* 308-318) or by a caller of its own; o is how enrich_from_fcpeuro ends.
EnrichWithCrossReferences(o) ==
    /\ inter # NoInter
    /\ inter.pc = "start"
    /\ inter.caller = "search_parts" => SearchEnriches(inter)
    /\ inter' = [inter EXCEPT
                   !.pc = "enriched",
                   !.contacted =
                       IF inter.analysis.part_numbers = <<>> THEN {}
                       ELSE {[provider |-> "fcpeuro",
                              part_number |-> inter.analysis.part_numbers[1]]},
                   !.analysis = enrich_with_cross_references(@, o)]
    /\ InterRest

\* _merge_cross_ref_results called on a list of results of its own.
MergeCalled ==
    /\ inter # NoInter
    /\ inter.pc = "merge"
    /\ inter' = [inter EXCEPT
                   !.pc = "merged",
                   !.group = merge_cross_ref_results(inter.primary_pn, inter.results)]
    /\ InterRest

InterNext ==
    \/ SearchSkipsInterchange
    \/ BuildReturnsEarly
    \/ FanOut
    \/ \E p \in ProviderSet : \E o \in ProviderOutcomes(p) : ProviderSettles(p, o)
    \/ MergeAndReturn
    \/ \E o \in ProviderOutcomes("fcpeuro") : EnrichWithCrossReferences(o)
    \/ MergeCalled

InterSpec == InterInit /\ [][InterNext]_vars


-----------------------------------------------------------------------------
(* The awaits of search_parts and its subtasks (search.py 284-321, 410, 553) *)

Advisor == [kind |-> "advisor", name |-> "_safe_ai_analysis"]

Community == [kind |-> "community", name |-> "_safe_community_fetch"]

ProviderTasks == {[kind |-> "provider", name |-> p] : p \in ProviderSet}

ConnectorTasks == {[kind |-> "connector", name |-> c] : c \in Connectors}

Subtasks == {Advisor, Community} \cup ProviderTasks \cup ConnectorTasks

PhaseInit ==
    /\ phase \in [pc : {"analysed"}, expands : BOOLEAN,
                  sub : {[t \in Subtasks |-> "none"]}, returned : {FALSE}]
    /\ cache = [k \in AllKeys |-> NoValue]
    /\ redisUp = TRUE
    /\ task = [c \in Connectors |-> IdleTask]
    /\ searchPc = "idle"
    /\ response = NoResponse
    /\ route = NoRoute
    /\ inter = NoInter
    /\ fusion = Absent
    /\ qa = Absent
    /\ overall = Absent
    /\ shared = Absent
    /\ pipeline = Absent

PhaseRest == UNCHANGED <<cache, redisUp, task, searchPc, response, route, inter, fusion, qa, overall, shared, pipeline>>

Started(sub, tasks) == [t \in Subtasks |-> IF t \in tasks THEN "running" ELSE sub[t]]

\* search.py 285-300: asyncio.create_task for the advisor and the community
\* fetch, then, for a PART_NUMBER query, await build_interchange_group, which
\* starts the providers; otherwise the next await is "await ai_task".
SpawnAuxiliary ==
    /\ phase # Absent
    /\ phase.pc = "analysed"
    /\ phase' = [phase EXCEPT
                    !.pc = IF phase.expands THEN "expanding" ELSE "await_advisor",
                    !.sub = Started(@, {Advisor, Community}
                                \cup (IF phase.expands THEN ProviderTasks ELSE {}))]
    /\ PhaseRest

\* A running subtask returns, fails or reaches its own deadline.
SubtaskFinishes(t) ==
    /\ phase # Absent
    /\ phase.sub[t] = "running"
    /\ phase' = [phase EXCEPT !.sub[t] = "done"]
    /\ PhaseRest

\* interchange.py 114 / search.py 300-321: the provider gather returns and
\* search_parts goes on to "await ai_task".
InterchangeJoined ==
    /\ phase # Absent
    /\ phase.pc = "expanding"
    /\ \A t \in ProviderTasks : phase.sub[t] = "done"
    /\ phase' = [phase EXCEPT !.pc = "await_advisor"]
    /\ PhaseRest

\* search.py 321-410: the advisor's result is in; the connector tasks are
\* built and awaited with asyncio.gather.
AdvisorJoined ==
    /\ phase # Absent
    /\ phase.pc = "await_advisor"
    /\ phase.sub[Advisor] = "done"
    /\ phase' = [phase EXCEPT !.pc = "gathering", !.sub = Started(@, ConnectorTasks)]
    /\ PhaseRest

\* search.py 410-553: gather returns; the next await is "await community_task".
ConnectorsJoined ==
    /\ phase # Absent
    /\ phase.pc = "gathering"
    /\ \A t \in ConnectorTasks : phase.sub[t] = "done"
    /\ phase' = [phase EXCEPT !.pc = "await_community"]
    /\ PhaseRest

\* search.py 553-671: the response is built and returned.
CommunityJoined ==
    /\ phase # Absent
    /\ phase.pc = "await_community"
    /\ phase.sub[Community] = "done"
    /\ phase' = [phase EXCEPT !.pc = "responded", !.returned = TRUE]
    /\ PhaseRest

\* What search_parts is awaiting at each of its suspension points: a
\* cancellation is passed on to that, and to nothing else.
Awaited(pc) ==
    CASE pc = "expanding" -> ProviderTasks
      [] pc = "await_advisor" -> {Advisor}
      [] pc = "gathering" -> ConnectorTasks
      [] pc = "await_community" -> {Community}
      [] OTHER -> {}

\* The request's task is cancelled: CancelledError is raised at the current
\* await, no handler of search_parts catches it, and nothing is returned.
RequestCancelled ==
    /\ phase # Absent
    /\ phase.pc \in {"expanding", "await_advisor", "gathering", "await_community"}
    /\ phase' = [phase EXCEPT
                    !.pc = "cancelled",
                    !.sub = [t \in Subtasks |->
                                IF t \in Awaited(phase.pc) /\ phase.sub[t] = "running"
                                THEN "cancelled" ELSE phase.sub[t]]]
    /\ PhaseRest

PhaseNext ==
    \/ SpawnAuxiliary
    \/ \E t \in Subtasks : SubtaskFinishes(t)
    \/ InterchangeJoined
    \/ AdvisorJoined
    \/ ConnectorsJoined
    \/ CommunityJoined
    \/ RequestCancelled

PhaseSpec == PhaseInit /\ [][PhaseNext]_vars

-----------------------------------------------------------------------------
(* Result fusion: deduplication.py, ranking.py, grouping.py *)

MaxListings == 3

\* Amounts of money are in thousandths of a dollar.
Dollars(n) == n * 1000

\* The listings connectors return in this model.  <<>> stands for None in
\* brand, condition, image_url and shipping_cost (<<x>> is the amount x).
ListingPool ==
    {[source |-> "rockauto", url |-> "u1", title |-> <<"b", "p", " ", "m", " ", "x">>,
      price |-> Dollars(30), shipping_cost |-> <<Dollars(5)>>,
      brand |-> <<"B", "o">>, part_numbers |-> << <<"P", "1">> >>,
      condition |-> "New", image_url |-> "i1"],
     [source |-> "amazon", url |-> "u2", title |-> <<"m", " ", "b", "p">>,
      price |-> Dollars(32), shipping_cost |-> <<0>>,
      brand |-> <<"b", "-", "o">>, part_numbers |-> << <<"p", ".", "1", " ">>, <<"X">> >>,
      condition |-> "Used", image_url |-> ""],
     [source |-> "ebay", url |-> "u1", title |-> <<"b", "p">>,
      price |-> Dollars(32), shipping_cost |-> <<>>,
      brand |-> <<>>, part_numbers |-> << <<"P", "1">> >>,
      condition |-> "", image_url |-> ""],
     [source |-> "ebay", url |-> "u3", title |-> <<"x">>,
      price |-> 0, shipping_cost |-> <<Dollars(5)>>,
      brand |-> <<"A", "c">>, part_numbers |-> << <<"P", "1">> >>,
      condition |-> "Refurbished", image_url |-> ""],
     [source |-> "partsgeek", url |-> "u4", title |-> <<"P", "1", " ", "m">>,
      price |-> Dollars(10) - 4, shipping_cost |-> <<0 - Dollars(1)>>,
      brand |-> <<"B", "o">>, part_numbers |-> <<>>,
      condition |-> "New", image_url |-> ""],
     [source |-> "ebay", url |-> "u5", title |-> <<"b", "p", " ", "m">>,
      price |-> Dollars(30), shipping_cost |-> <<>>,
      brand |-> <<"A", "c">>, part_numbers |-> << <<"X">> >>,
      condition |-> "New", image_url |-> ""]}

LinkPool ==
    {[source |-> "carpart", url |-> "u1", label |-> "a"],
     [source |-> "resources", url |-> "u1", label |-> "b"],
     [source |-> "carpart", url |-> "u1", label |-> "c"],
     [source |-> "carpart", url |-> "u2", label |-> "d"]}

\* deduplication.py 8-16 and 19-28: keep an item when its key is not among
\* the keys seen before it.
RECURSIVE UniqueBy(_, _, _)
UniqueBy(items, keys, seen) ==
    IF items = <<>> THEN <<>>
    ELSE IF Head(keys) \in seen
         THEN UniqueBy(Tail(items), Tail(keys), seen)
         ELSE <<Head(items)>> \o UniqueBy(Tail(items), Tail(keys), seen \cup {Head(keys)})

\* Variant: listings are told apart by source and url.
deduplicate_listings_BySource(listings) ==
    UniqueBy(listings, [i \in 1..Len(listings) |-> <<listings[i].source, listings[i].url>>], {})

deduplicate_listings(listings) ==
    UniqueBy(listings, [i \in 1..Len(listings) |-> listings[i].url], {})

deduplicate_links_ByUrl(links) ==
    UniqueBy(links, [i \in 1..Len(links) |-> links[i].url], {})

deduplicate_links(links) ==
    UniqueBy(links, [i \in 1..Len(links) |-> <<links[i].source, links[i].url>>], {})

\* sorted(items, key=...) and sorted(..., reverse=True): both keep items of
\* equal key in input order.  Keys are fractions <<numerator, denominator>>
\* with a denominator >= 0; <<1, 0>> is float("inf").
KeyLess(a, b) == a[1] * b[2] < b[1] * a[2]

StableSorted(items, keys, reverse) ==
    LET idx == 1..Len(items)
        Before(j, i) ==
            \/ IF reverse THEN KeyLess(keys[i], keys[j]) ELSE KeyLess(keys[j], keys[i])
            \/ /\ ~KeyLess(keys[i], keys[j])
               /\ ~KeyLess(keys[j], keys[i])
               /\ j < i
        Place(i) == 1 + Cardinality({j \in idx : Before(j, i)})
    IN [p \in idx |-> items[CHOOSE i \in idx : Place(i) = p]]

\* needle in haystack, for strings
Contains(haystack, needle) ==
    \E i \in 1..(Len(haystack) - Len(needle) + 1) :
        SubSeq(haystack, i, i + Len(needle) - 1) = needle

\* str.split()
RECURSIVE Split(_, _)
Split(s, word) ==
    IF s = <<>> THEN (IF word = <<>> THEN <<>> ELSE <<word>>)
    ELSE IF Head(s) = " "
         THEN (IF word = <<>> THEN <<>> ELSE <<word>>) \o Split(Tail(s), <<>>)
         ELSE Split(Tail(s), Append(word, Head(s)))

Words(s) == Split(s, <<>>)

\* get_brand_profile: the brand knowledge base knows one brand of the pool.
BrandProfile(brand) ==
    IF UpperStr(brand) = <<"B", "O">>
    THEN [known |-> TRUE, quality_score |-> 8, tier |-> "premium_aftermarket"]
    ELSE [known |-> FALSE]

\* Scores are in twelfths of a point.
Points(n) == n * 12

\* brand_intelligence.py 126-156
get_brand_tier_boost(brand, query_type) ==
    LET profile == BrandProfile(brand) IN
    IF ~profile.known THEN 0
    ELSE IF query_type = "part_number"
         THEN (CASE profile.tier = "oem" -> Points(3)
                 [] profile.tier = "premium_aftermarket" -> Points(2)
                 [] profile.tier = "economy" -> 6
                 [] OTHER -> 0)
         ELSE (CASE profile.tier = "oem" -> 18
                 [] profile.tier = "premium_aftermarket" -> Points(1)
                 [] profile.tier = "economy" -> 6
                 [] OTHER -> 0)

\* The words of `words` found in `text`.
Matched(words, text) ==
    Cardinality({i \in 1..Len(words) : Contains(text, words[i])})

NoAnalysis == [present |-> FALSE]

\* ranking.py 51-100: the boosts from the QueryAnalysis.
ContextScore(listing, analysis) ==
    LET title_upper == UpperStr(listing.title)
        listing_pns_upper == {UpperStr(pn) : pn \in Range(listing.part_numbers)}
        all_relevant_pns ==
            {UpperStr(pn) : pn \in Range(analysis.part_numbers)
                                     \cup Range(analysis.cross_references)}
        vehicle_words == Words(UpperStr(analysis.vehicle_hint))
        matched_vehicle == Matched(vehicle_words, title_upper)
        desc_upper == UpperStr(analysis.part_description)
        desc_words == Words(desc_upper)
        matched_desc == Matched(desc_words, title_upper)
    IN (IF listing_pns_upper \cap all_relevant_pns # {} THEN Points(15)
        ELSE IF \E pn \in all_relevant_pns : Contains(title_upper, pn) THEN Points(12)
        ELSE 0)
       + (IF analysis.vehicle_hint = <<>> THEN 0
          ELSE IF matched_vehicle = Len(vehicle_words) THEN Points(10)
          ELSE IF matched_vehicle > 0
               THEN (Points(5) * matched_vehicle) \div Len(vehicle_words)
          ELSE 0)
       + (IF analysis.part_description = <<>> THEN 0
          ELSE IF Contains(title_upper, desc_upper) THEN Points(8)
          ELSE IF matched_desc > 0
               THEN (Points(4) * matched_desc) \div Len(desc_words)
          ELSE 0)
       + (IF /\ analysis.brands_found # <<>>
             /\ listing.brand # <<>>
             /\ \E b \in Range(analysis.brands_found) :
                   UpperStr(b) = UpperStr(listing.brand)
          THEN Points(5) ELSE 0)
       + (IF listing.brand # <<>>
          THEN get_brand_tier_boost(listing.brand, analysis.query_type) ELSE 0)

\* ranking.py 16-102
relevance_score(listing, query, analysis) ==
    LET query_upper == UpperStr(query)
        title_upper == UpperStr(listing.title)
        words == Words(query_upper)
    IN (IF Contains(title_upper, query_upper) THEN Points(10) ELSE 0)
       + (IF words # <<>>
          THEN (Points(5) * Matched(words, title_upper)) \div Len(words) ELSE 0)
       + (IF listing.part_numbers # <<>> THEN Points(3) ELSE 0)
       + (IF listing.image_url # "" THEN Points(1) ELSE 0)
       + (CASE listing.condition = "New" -> Points(2)
            [] listing.condition = "Refurbished" -> 18
            [] listing.condition = "Used" -> Points(1)
            [] OTHER -> 0)
       + (IF listing.price > 0 THEN Points(1) ELSE 0)
       + (IF analysis.present THEN ContextScore(listing, analysis) ELSE 0)

\* ranking.py 105-114: (quality * 10) / total as a fraction, here per
\* thousandth of a dollar; 5 is the quality of a brand without a profile.
ranking_value_score(listing) ==
    LET total == listing.price
                 + (IF listing.shipping_cost = <<>> THEN 0 ELSE listing.shipping_cost[1])
        profile == IF listing.brand # <<>> THEN BrandProfile(listing.brand)
                   ELSE [known |-> FALSE]
        quality == IF profile.known THEN profile.quality_score ELSE 5
    IN IF total <= 0 THEN <<0, 1>> ELSE <<quality * 10, total>>

price_asc_key_Plain(listing) == <<listing.price, 1>>

\* ranking.py 133: x.price if x.price > 0 else float("inf")
price_asc_key(listing) ==
    IF listing.price > 0 THEN <<listing.price, 1>> ELSE <<1, 0>>

SortModes == {"relevance", "price_asc", "price_desc", "value"}

\* ranking.py 117-143
rank_listings(listings, query, sort, analysis) ==
    LET idx == 1..Len(listings) IN
    IF sort = "price_asc"
    THEN StableSorted(listings, [i \in idx |-> price_asc_key(listings[i])], FALSE)
    ELSE IF sort = "price_desc"
    THEN StableSorted(listings, [i \in idx |-> <<listings[i].price, 1>>], TRUE)
    ELSE IF sort = "value"
    THEN StableSorted(listings, [i \in idx |-> ranking_value_score(listings[i])], TRUE)
    ELSE StableSorted(listings,
                      [i \in idx |-> <<relevance_score(listings[i], query, analysis), 1>>],
                      TRUE)

normalize_key_KeepDots(s) == UpperStr(SelectSeq(s, LAMBDA ch : ch \notin {" ", "-"}))

\* grouping.py 15-17: re.sub(r"[\s\-\.]+", "", s).upper()
normalize_key(s) == UpperStr(SelectSeq(s, LAMBDA ch : ch \notin {" ", "-", "."}))

\* grouping.py 20-29; <<>> is None.
grouping_key(listing) ==
    IF listing.brand # <<>> /\ listing.part_numbers # <<>>
    THEN normalize_key(listing.brand) \o <<":">> \o normalize_key(listing.part_numbers[1])
    ELSE <<>>

total_cost_Signed(listing) ==
    listing.price + (IF listing.shipping_cost # <<>> THEN listing.shipping_cost[1] ELSE 0)

\* grouping.py 32-35
total_cost(listing) ==
    listing.price
    + (IF listing.shipping_cost # <<>> /\ listing.shipping_cost[1] > 0
       THEN listing.shipping_cost[1] ELSE 0)

\* round(numerator / denominator) to the nearest multiple of `unit`, ties to
\* the even multiple, for a non-negative fraction.
RoundTo(numerator, denominator, unit) ==
    LET d == denominator * unit
        q == numerator \div d
        r == numerator % d
    IN IF 2 * r < d THEN q * unit
       ELSE IF 2 * r > d THEN (q + 1) * unit
       ELSE IF q % 2 = 0 THEN q * unit ELSE (q + 1) * unit

\* round(total, 2): to the cent.
round2(amount) == RoundTo(amount, 1, 10)

\* grouping.py 38-52 and round(value, 3): thousandths of a quality point per
\* dollar.
grouping_value_score(listing) ==
    LET total == total_cost(listing)
        profile == IF listing.brand # <<>> THEN BrandProfile(listing.brand)
                   ELSE [known |-> FALSE]
        quality == IF profile.known THEN profile.quality_score ELSE 5
    IN IF total <= 0 THEN 0 ELSE RoundTo(quality * 10000000, total, 1)

\* grouping.py 111-123
Offer(listing) ==
    [source |-> listing.source, price |-> listing.price,
     shipping_cost |-> listing.shipping_cost,
     total_cost |-> round2(total_cost(listing)),
     url |-> listing.url, title |-> listing.title,
     value_score |-> grouping_value_score(listing)]

Min(S) == CHOOSE x \in S : \A y \in S : x <= y

Max(S) == CHOOSE x \in S : \A y \in S : x >= y

\* grouping.py 103-142 and 145-176: the group of the listings `members`.
Group(members) ==
    LET rep == members[1]
        unsorted == [i \in 1..Len(members) |-> Offer(members[i])]
        offers == StableSorted(unsorted,
                               [i \in 1..Len(unsorted) |-> <<unsorted[i].total_cost, 1>>],
                               FALSE)
        prices == {offers[i].total_cost : i \in 1..Len(offers)}
    IN [brand |-> IF rep.brand # <<>> THEN rep.brand ELSE <<"Unknown">>,
        part_number |-> IF rep.part_numbers # <<>> THEN rep.part_numbers[1] ELSE <<>>,
        offers |-> offers,
        best_price |-> Min(prices),
        price_range |-> [low |-> Min(prices), high |-> Max(prices)],
        offer_count |-> Len(offers),
        best_value_score |-> Max({offers[i].value_score : i \in 1..Len(offers)})]

\* grouping.py 87-181
group_listings(listings) ==
    LET priced == SelectSeq(listings, LAMBDA l : l.price > 0)
        keyed == SelectSeq(priced, LAMBDA l : grouping_key(l) # <<>>)
        ungrouped == SelectSeq(priced, LAMBDA l : grouping_key(l) = <<>>)
        \* dict order: the keys in order of first appearance
        firsts == UniqueBy(keyed, [i \in 1..Len(keyed) |-> grouping_key(keyed[i])], {})
        grouped ==
            [g \in 1..Len(firsts) |->
                Group(SelectSeq(keyed,
                                LAMBDA l : grouping_key(l) = grouping_key(firsts[g])))]
        single == [u \in 1..Len(ungrouped) |-> Group(<<ungrouped[u]>>)]
        result == grouped \o single
    IN StableSorted(result,
                    [i \in 1..Len(result) |-> <<result[i].best_value_score, 1>>],
                    TRUE)

\* The query and the analyses rank_listings is called with.
RankQuery == <<"B", "P", " ", "M">>

RankAnalyses ==
    {NoAnalysis,
     [present |-> TRUE, query_type |-> "part_number",
      part_numbers |-> << <<"P", "1">> >>, cross_references |-> <<>>,
      vehicle_hint |-> <<"m", " ", "9">>, part_description |-> <<"b", "p", " ", "x">>,
      brands_found |-> << <<"A", "C">> >>]}

FusionInit ==
    /\ fusion \in
         [kind : {"listings"}, fn : {"deduplicate_listings", "group_listings"},
          input : SeqsUpTo(ListingPool, MaxListings),
          sort : {"relevance"}, analysis : {NoAnalysis},
          unique : {<<>>}, ranked : {<<>>}, groups : {<<>>}, called : {{}}]
         \cup
         [kind : {"listings"}, fn : {"rank_listings"},
          input : SeqsUpTo(ListingPool, MaxListings),
          sort : SortModes, analysis : RankAnalyses,
          unique : {<<>>}, ranked : {<<>>}, groups : {<<>>}, called : {{}}]
         \cup
         [kind : {"links"}, fn : {"deduplicate_links"},
          input : SeqsUpTo(LinkPool, MaxListings),
          sort : {"relevance"}, analysis : {NoAnalysis},
          unique : {<<>>}, ranked : {<<>>}, groups : {<<>>}, called : {{}}]
    /\ cache = [k \in AllKeys |-> NoValue]
    /\ redisUp = TRUE
    /\ task = [c \in Connectors |-> IdleTask]
    /\ searchPc = "idle"
    /\ response = NoResponse
    /\ route = NoRoute
    /\ inter = NoInter
    /\ phase = Absent
    /\ qa = Absent
    /\ overall = Absent
    /\ shared = Absent
    /\ pipeline = Absent

FusionRest == UNCHANGED <<cache, redisUp, task, searchPc, response, route, inter, phase, qa, overall, shared, pipeline>>

\* deduplicate_listings(listings)
DeduplicateListings ==
    /\ fusion # Absent
    /\ fusion.kind = "listings"
    /\ fusion.fn = "deduplicate_listings"
    /\ "deduplicate_listings" \notin fusion.called
    /\ fusion' = [fusion EXCEPT
                    !.called = @ \cup {"deduplicate_listings"},
                    !.unique = deduplicate_listings(fusion.input)]
    /\ FusionRest

\* deduplicate_links(links)
DeduplicateLinks ==
    /\ fusion # Absent
    /\ fusion.kind = "links"
    /\ fusion.fn = "deduplicate_links"
    /\ "deduplicate_links" \notin fusion.called
    /\ fusion' = [fusion EXCEPT
                    !.called = @ \cup {"deduplicate_links"},
                    !.unique = deduplicate_links(fusion.input)]
    /\ FusionRest

\* rank_listings(listings, query, sort, analysis)
RankListings ==
    /\ fusion # Absent
    /\ fusion.kind = "listings"
    /\ fusion.fn = "rank_listings"
    /\ "rank_listings" \notin fusion.called
    /\ fusion' = [fusion EXCEPT
                    !.called = @ \cup {"rank_listings"},
                    !.ranked = rank_listings(fusion.input, RankQuery, fusion.sort,
                                             fusion.analysis)]
    /\ FusionRest

\* group_listings(listings)
GroupListings ==
    /\ fusion # Absent
    /\ fusion.kind = "listings"
    /\ fusion.fn = "group_listings"
    /\ "group_listings" \notin fusion.called
    /\ fusion' = [fusion EXCEPT
                    !.called = @ \cup {"group_listings"},
                    !.groups = group_listings(fusion.input)]
    /\ FusionRest

FusionNext ==
    \/ DeduplicateListings
    \/ DeduplicateLinks
    \/ RankListings
    \/ GroupListings

FusionSpec == FusionInit /\ [][FusionNext]_vars

-----------------------------------------------------------------------------
(* Query analysis: query_analysis.py, part_numbers.py *)

MaxPhrases == 3

Digits == {"0", "1", "2", "3", "4", "5", "6", "7", "8", "9"}

UpperSet == {UpperLetters[i] : i \in 1..26}

\* [A-Z0-9]
IsAlnum(ch) == ch \in UpperSet \cup Digits

\* str.isalpha() of a character
IsAlpha(ch) == \E i \in 1..26 : ch = UpperLetters[i] \/ ch = LowerLetters[i]

ToLower ==
    [ch \in UpperSet |-> LowerLetters[CHOOSE i \in 1..26 : UpperLetters[i] = ch]]

\* str.lower() of a character
Lower(ch) == IF ch \in UpperSet THEN ToLower[ch] ELSE ch

\* str.title(): a letter is uppercased after a character that is not a letter
\* and lowercased after a letter.
Title(s) ==
    [i \in 1..Len(s) |-> IF i > 1 /\ IsAlpha(s[i - 1]) THEN Lower(s[i]) ELSE Upper(s[i])]

\* str.strip()
Strip(s) == RStrip(LStrip(s))

\* str.strip(chars)
RECURSIVE StripChars(_, _)
StripChars(s, chars) ==
    IF s # <<>> /\ Head(s) \in chars THEN StripChars(Tail(s), chars)
    ELSE IF s # <<>> /\ s[Len(s)] \in chars THEN StripChars(SubSeq(s, 1, Len(s) - 1), chars)
    ELSE s

\* str.replace(sub, "")
RECURSIVE Removed(_, _)
Removed(s, sub) ==
    IF Len(s) < Len(sub) THEN s
    ELSE IF SubSeq(s, 1, Len(sub)) = sub
         THEN Removed(SubSeq(s, Len(sub) + 1, Len(s)), sub)
         ELSE <<Head(s)>> \o Removed(Tail(s), sub)

\* " ".join(words)
RECURSIVE JoinWords(_)
JoinWords(words) ==
    IF words = <<>> THEN <<>>
    ELSE IF Len(words) = 1 THEN words[1]
    ELSE words[1] \o <<" ">> \o JoinWords(Tail(words))

\* The order of characters in part numbers, by code point.
CodeOrder == <<"-", ".", "0", "1", "2", "3", "4", "5", "6", "7", "8", "9">> \o UpperLetters

Code(ch) == CHOOSE i \in 1..Len(CodeOrder) : CodeOrder[i] = ch

\* a < b for strings
RECURSIVE StrLess(_, _)
StrLess(a, b) ==
    IF b = <<>> THEN FALSE
    ELSE IF a = <<>> THEN TRUE
    ELSE IF Head(a) = Head(b) THEN StrLess(Tail(a), Tail(b))
    ELSE Code(Head(a)) < Code(Head(b))

\* sorted(list(part_numbers))
RECURSIVE SortedStrings(_)
SortedStrings(strings) ==
    IF strings = {} THEN <<>>
    ELSE LET least == CHOOSE a \in strings : \A b \in strings \ {a} : StrLess(a, b)
         IN <<least>> \o SortedStrings(strings \ {least})

\* part_numbers.py 39: \b[A-Z0-9]{2,}-[A-Z0-9-]{1,}\b, on a word it matches
\* whole or not at all.
MatchesDashed(w) ==
    /\ \A i \in 1..Len(w) : IsAlnum(w[i]) \/ w[i] = "-"
    /\ \E d \in 3..(Len(w) - 1) : w[d] = "-" /\ \A i \in 1..(d - 1) : IsAlnum(w[i])
    /\ IsAlnum(w[Len(w)])

\* part_numbers.py 41: \b[A-Z0-9]{2,}\.[A-Z0-9]{1,}\b
MatchesDotted(w) ==
    \E d \in 3..(Len(w) - 1) :
        /\ w[d] = "."
        /\ \A i \in 1..Len(w) : i # d => IsAlnum(w[i])

\* part_numbers.py 43: \b(?=[A-Z]*[0-9])(?=[0-9]*[A-Z])[A-Z0-9]{5,15}\b
MatchesMixed(w) ==
    /\ Len(w) >= 5 /\ Len(w) <= 15
    /\ \A i \in 1..Len(w) : IsAlnum(w[i])
    /\ \E i \in 1..Len(w) : w[i] \in Digits
    /\ \E i \in 1..Len(w) : w[i] \in UpperSet

\* part_numbers.py 58 and 72: 3 <= len without dashes and dots <= 20
LengthOk(pn) ==
    LET bare == SelectSeq(pn, LAMBDA ch : ch \notin {"-", "."})
    IN Len(bare) >= 3 /\ Len(bare) <= 20

\* part_numbers.py 64: the words (?:OEM|PART\s*#?|PN|P/N) matches whole.
OemPrefixes == {<<"O", "E", "M">>, <<"P", "A", "R", "T">>, <<"P", "N">>, <<"P", "/", "N">>}

\* part_numbers.py 64: the group ([A-Z0-9-]{3,15}) at the start of a word.
RECURSIVE Captured(_, _)
Captured(w, room) ==
    IF w = <<>> \/ room = 0 \/ ~(IsAlnum(Head(w)) \/ Head(w) = "-") THEN <<>>
    ELSE <<Head(w)>> \o Captured(Tail(w), room - 1)

\* part_numbers.py 62-73: re.findall of the prefixed pattern, left to right
\* over the words; a captured word is consumed.
RECURSIVE OemCaptures(_)
OemCaptures(words) ==
    IF Len(words) < 2 THEN {}
    ELSE IF Head(words) \in OemPrefixes /\ Len(Captured(words[2], 15)) >= 3
         THEN {Captured(words[2], 15)} \cup OemCaptures(Tail(Tail(words)))
         ELSE OemCaptures(Tail(words))

\* part_numbers.py 21-76
extract_part_numbers(text) ==
    LET words == Words(UpperStr(text))
        matched == {w \in Range(words) :
                       MatchesDashed(w) \/ MatchesDotted(w) \/ MatchesMixed(w)}
    IN SortedStrings({pn \in matched \cup OemCaptures(words) : LengthOk(pn)})

\* query_analysis.py 34-47, the makes the queries of the model can spell.
MAKES == {<<"H", "O", "N", "D", "A">>, <<"F", "O", "R", "D">>}

\* query_analysis.py 117-133, the keywords the queries of the model can spell.
PART_KEYWORDS ==
    {<<"B", "R", "A", "K", "E">>,
     <<"P", "A", "D">>,
     <<"P", "A", "D", "S">>,
     <<"F", "I", "L", "T", "E", "R">>,
     <<"O", "I", "L">>,
     <<"C", "E", "R", "A", "M", "I", "C">>}

\* query_analysis.py 160
noise_words ==
    {<<"O", "R">>,
     <<"A", "N", "D">>,
     <<"F", "O", "R">>,
     <<"T", "H", "E">>,
     <<"A">>,
     <<"A", "N">>,
     <<"O", "E", "M">>,
     <<"P", "A", "R", "T">>,
     <<"P", "N">>,
     <<"P", "/", "N">>,
     <<"#">>,
     <<"N", "O">>,
     <<"N", "U", "M", "B", "E", "R">>}

\* query_analysis.py 49: \b(19[6-9]\d|20[0-3]\d)\b matches at position i
YearAt(q, i) ==
    /\ i + 3 <= Len(q)
    /\ \/ q[i] = "1" /\ q[i + 1] = "9" /\ q[i + 2] \in {"6", "7", "8", "9"}
       \/ q[i] = "2" /\ q[i + 1] = "0" /\ q[i + 2] \in {"0", "1", "2", "3"}
    /\ q[i + 3] \in Digits
    /\ i = 1 \/ ~IsAlnum(q[i - 1])
    /\ i + 3 = Len(q) \/ ~IsAlnum(q[i + 4])

StartsWith(s, prefix) == Len(prefix) <= Len(s) /\ SubSeq(s, 1, Len(prefix)) = prefix

\* str.find(sub), 0 when absent
Find(s, sub) ==
    IF Contains(s, sub)
    THEN CHOOSE i \in 1..Len(s) :
            /\ SubSeq(s, i, i + Len(sub) - 1) = sub
            /\ \A j \in 1..(i - 1) : SubSeq(s, j, j + Len(sub) - 1) # sub
    ELSE 0

\* query_analysis.py 80-84 and 103-107: the words up to the first keyword
RECURSIVE ModelWords(_)
ModelWords(words) ==
    IF words = <<>> \/ Head(words) \in PART_KEYWORDS THEN <<>>
    ELSE <<Head(words)>> \o ModelWords(Tail(words))

\* The longest of a set of makes: the first in sorted(_MAKES, key=len,
\* reverse=True).
Longest(makes) == CHOOSE m \in makes : \A n \in makes : Len(n) <= Len(m)

\* query_analysis.py 92-100: the make is in the query at a word boundary
MakeFound(q, make) ==
    LET idx == Find(q, make)
        end == idx + Len(make)
    IN /\ idx # 0
       /\ ~(idx > 1 /\ IsAlpha(q[idx - 1]))
       /\ ~(end <= Len(q) /\ IsAlpha(q[end]))

\* query_analysis.py 65-113; <<>> is None.
detect_vehicle(query) ==
    LET q == UpperStr(query)
        years == {i \in 1..Len(q) : YearAt(q, i)}
        at == CHOOSE i \in years : \A j \in years : i <= j
        after_year == Strip(SubSeq(q, at + 4, Len(q)))
        after_makes == {m \in MAKES : StartsWith(after_year, m)}
        found == {m \in MAKES : MakeFound(q, m)}
        WithModel(prefix, make, text) ==
            LET model_words == ModelWords(Words(Strip(SubSeq(text, Len(make) + 1, Len(text)))))
            IN Title(JoinWords(prefix \o <<make>> \o model_words))
    IN IF years # {} /\ after_makes # {}
       THEN WithModel(<<SubSeq(q, at, at + 3)>>, Longest(after_makes), after_year)
       ELSE IF found # {}
       THEN WithModel(<<>>, Longest(found),
                      SubSeq(q, Find(q, Longest(found)), Len(q)))
       ELSE <<>>

\* query_analysis.py 147-150: every extracted part number removed in turn
RECURSIVE RemovedAll(_, _)
RemovedAll(s, extracted) ==
    IF extracted = <<>> THEN s
    ELSE RemovedAll(Removed(s, Head(extracted)), Tail(extracted))

\* query_analysis.py 152-161: the words left after the part numbers, the
\* separators and the noise words are removed
meaningful_words(query, extracted) ==
    LET remaining == Strip(StripChars(Strip(RemovedAll(UpperStr(query), extracted)),
                                      {"-", ".", "/", ","}))
    IN SelectSeq(Words(remaining), LAMBDA w : w \notin noise_words /\ Len(w) > 1)

\* query_analysis.py 60-62: ^[A-Z0-9][A-Z0-9.\-/\s]*$
PURE_PART_NUMBER(s) ==
    /\ s # <<>>
    /\ IsAlnum(s[1])
    /\ \A i \in 2..Len(s) : IsAlnum(s[i]) \/ s[i] \in {".", "-", "/", " "}

\* query_analysis.py 136-176
is_part_number_query(query, extracted) ==
    IF extracted = <<>> THEN FALSE
    ELSE IF meaningful_words(query, extracted) = <<>> THEN TRUE
    ELSE IF PURE_PART_NUMBER(Strip(UpperStr(query)))
         THEN ~(\A w \in Range(Words(UpperStr(query))) : w \in PART_KEYWORDS \cup MAKES)
         ELSE FALSE

query_type_HintIgnored(is_part_number, vehicle_hint) ==
    IF is_part_number THEN "part_number" ELSE "keywords"

\* query_analysis.py 194-215
query_type(is_part_number, vehicle_hint) ==
    IF is_part_number THEN "part_number"
    ELSE IF vehicle_hint # <<>> THEN "vehicle_part"
    ELSE "keywords"

\* query_analysis.py 179-215
analyze_query(query) ==
    LET normalized == Strip(UpperStr(query))
        extracted == extract_part_numbers(normalized)
        vehicle_hint == detect_vehicle(normalized)
    IN [query_type |-> query_type(is_part_number_query(normalized, extracted), vehicle_hint),
        original_query |-> query,
        part_numbers |-> extracted,
        vehicle_hint |-> vehicle_hint,
        cross_references |-> <<>>,
        brands_found |-> <<>>]

\* The phrases queries are made of.
Phrases ==
    {<<"9", "5", "1", "-", "3", "7", "5", "-", "0", "4", "2", "-", "0", "4">>,
     <<"B", "P", "1", "2", "3", "4">>,
     <<"F", "I", "L", "T", "E", "R">>,
     <<"F", "O", "R", "D">>,
     <<"2", "0", "1", "5">>,
     <<"H", "o", "n", "d", "a", " ", "C", "i", "v", "i", "c">>,
     <<"b", "r", "a", "k", "e", " ", "p", "a", "d", "s">>,
     <<"c", "e", "r", "a", "m", "i", "c">>,
     <<"O", "E", "M">>,
     <<"f", "o", "r">>,
     <<"c", "h", "e", "a", "p">>,
     <<"p", "a", "d", "s", ",">>}

\* The queries: up to MaxPhrases phrases, a space between them.
QueryTexts == {JoinWords(ps) : ps \in SeqsUpTo(Phrases, MaxPhrases)}

NotAnalysed == [analysed |-> FALSE]

AnalysisInit ==
    /\ qa \in [query : QueryTexts, result : {NotAnalysed}]
    /\ cache = [k \in AllKeys |-> NoValue]
    /\ redisUp = TRUE
    /\ task = [c \in Connectors |-> IdleTask]
    /\ searchPc = "idle"
    /\ response = NoResponse
    /\ route = NoRoute
    /\ inter = NoInter
    /\ phase = Absent
    /\ fusion = Absent
    /\ overall = Absent
    /\ shared = Absent
    /\ pipeline = Absent

\* analysis = analyze_query(normalized_query)
AnalyzeQuery ==
    /\ qa # Absent
    /\ qa.result = NotAnalysed
    /\ qa' = [qa EXCEPT !.result = analyze_query(qa.query)]
    /\ UNCHANGED <<cache, redisUp, task, searchPc, response, route, inter, phase, fusion, overall, shared, pipeline>>

AnalysisNext == AnalyzeQuery

AnalysisSpec == AnalysisInit /\ [][AnalysisNext]_vars

-----------------------------------------------------------------------------
(* The overall response cache of search_parts (search.py 228-279, 606-625) *)

\* Requests served one after the other in a behaviour.
MaxRequests == 2

\* part_numbers.py 8-18: " ".join(query.upper().split()).strip()
normalize_query(query) == Strip(JoinWords(Words(UpperStr(query))))

\* Query strings of the requests: two that normalize to the same text.
RequestQueries ==
    {<<"9", "4", "4", " ", "b", "p">>, <<" ", "9", "4", "4", " ", " ", "B", "P">>}

\* search.py 228-238: the parameters of GET /search; "" is None.
Requests ==
    [query : RequestQueries, sort : {"relevance", "price_asc"},
     zip_code : {"", "97201"}, max_results : {1, 2}, vehicle_make : {"", "Volvo"}]

\* search.py 272: f"search:overall:{normalized_query}:{sort}"
overall_cache_key(request) ==
    <<"search:overall:">> \o normalize_query(request.query) \o <<":", request.sort>>

OverallKeys == {overall_cache_key(r) : r \in Requests}

\* What the connector offers for a query near a zip code, nearest first.
Catalog(zip_code) ==
    IF zip_code = "" THEN <<Dict("u1"), Dict("u2")>> ELSE <<Dict("n1"), Dict("u1")>>

\* connector.search(query, max_results=..., zip_code=...) (search.py 358-362)
\* when it returns.
ConnectorReturn(request) ==
    [market_listings |-> Take(Catalog(request.zip_code), request.max_results),
     salvage_hits |-> <<>>, external_links |-> <<>>, error |-> <<>>]

\* How the connector call of a search ends.
ConnectorEnds == {"returned", "raised", "timed out"}

\* The result _run_connector hands to the aggregation.
RunConnector(request, ending) ==
    CASE ending = "returned" -> ReturnedResult(ConnectorReturn(request), "ebay")
      [] ending = "raised" ->
           RaisedResult([kind |-> "Exception", msg |-> <<"boom">>], "ebay")
      [] OTHER -> ErrorResult(TimedOutMessage, "ebay")

\* search.py 285-287, 592-604: the response data of a search that ran; the
\* advisor is asked about the vehicle of the request.
ResponseData(request, ending) ==
    LET aggregate == Aggregate(<<RunConnector(request, ending)>>)
    IN [query |-> normalize_query(request.query),
        market_listings |-> aggregate.market_listings,
        sources_queried |-> aggregate.sources_queried,
        warnings |-> aggregate.warnings,
        ai_analysis |-> [vehicle_make |-> request.vehicle_make],
        cached |-> FALSE]

OverallInit ==
    /\ overall = [pc |-> "idle", request |-> <<>>, served |-> 0, invoked |-> FALSE,
                  response |-> <<>>, origin |-> [k \in OverallKeys |-> <<>>]]
    /\ cache = [k \in OverallKeys |-> NoValue]
    /\ redisUp = TRUE
    /\ task = [c \in Connectors |-> IdleTask]
    /\ searchPc = "idle"
    /\ response = NoResponse
    /\ route = NoRoute
    /\ inter = NoInter
    /\ phase = Absent
    /\ fusion = Absent
    /\ qa = Absent
    /\ shared = Absent
    /\ pipeline = Absent

OverallRest ==
    UNCHANGED <<task, searchPc, response, route, inter, phase, fusion, qa, shared, pipeline>>

\* A request arrives; search_parts normalizes the query (search.py 268-269).
Receive(request) ==
    /\ overall # Absent
    /\ overall.pc \in {"idle", "responded"}
    /\ overall.served < MaxRequests
    /\ overall' = [overall EXCEPT !.pc = "lookup", !.request = request,
                                  !.invoked = FALSE, !.response = <<>>]
    /\ UNCHANGED <<cache, redisUp>>
    /\ OverallRest

\* search.py 272-279: a stored response is returned with cached = True and
\* nothing else of search_parts runs.
OverallLookup ==
    /\ overall # Absent
    /\ overall.pc = "lookup"
    /\ LET cached_overall == get_cached_result(overall_cache_key(overall.request))
       IN IF cached_overall # NoValue
          THEN overall' = [overall EXCEPT
                             !.pc = "responded",
                             !.served = @ + 1,
                             !.response = [cached_overall EXCEPT !.cached = TRUE]]
          ELSE overall' = [overall EXCEPT !.pc = "searching"]
    /\ UNCHANGED <<cache, redisUp>>
    /\ OverallRest

\* search.py 282-604: the search runs, its connector call ends and the
\* response data is built.
SearchRuns(ending) ==
    /\ overall # Absent
    /\ overall.pc = "searching"
    /\ overall' = [overall EXCEPT !.pc = "built", !.invoked = TRUE,
                                  !.response = ResponseData(overall.request, ending)]
    /\ UNCHANGED <<cache, redisUp>>
    /\ OverallRest

\* search.py 606-607: await set_cached_result(overall_cache_key,
\* response_data); the response data holds plain dicts only.
StoreOverall ==
    /\ overall # Absent
    /\ overall.pc = "built"
    /\ LET key == overall_cache_key(overall.request)
       IN IF redisUp
          THEN /\ cache' = [cache EXCEPT ![key] = [text |-> overall.response]]
               /\ overall' = [overall EXCEPT !.pc = "responded", !.served = @ + 1,
                                             !.origin[key] = overall.request]
          ELSE /\ cache' = cache
               /\ overall' = [overall EXCEPT !.pc = "responded", !.served = @ + 1]
    /\ UNCHANGED redisUp
    /\ OverallRest

\* The TTL of a stored response lapses.
OverallExpires(k) ==
    /\ overall # Absent
    /\ cache[k] # NoValue
    /\ cache' = [cache EXCEPT ![k] = NoValue]
    /\ UNCHANGED <<redisUp, overall>>
    /\ OverallRest

OverallNext ==
    \/ \E request \in Requests : Receive(request)
    \/ OverallLookup
    \/ \E ending \in ConnectorEnds : SearchRuns(ending)
    \/ StoreOverall
    \/ \E k \in OverallKeys : OverallExpires(k)

OverallSpec == OverallInit /\ [][OverallNext]_vars

-----------------------------------------------------------------------------
(* Concurrent searches on one connector cache key (search.py 144-191) *)

\* Searches in flight at once, each running the ebay connector.
MaxSearches == 2

Searches == 1..MaxSearches

\* The cache key every one of them reads and writes.
SharedKey == get_cache_key("ebay", <<"9", "4", "_", "B", "P">>)

IdleCall == [pc |-> "idle", query |-> <<>>, value |-> NoResult, result |-> NoResult]

SharedInit ==
    /\ shared = [call |-> [s \in Searches |-> IdleCall],
                 returned |-> {}, overwritten |-> FALSE]
    /\ cache = [k \in AllKeys |-> NoValue]
    /\ redisUp = TRUE
    /\ task = [c \in Connectors |-> IdleTask]
    /\ searchPc = "idle"
    /\ response = NoResponse
    /\ route = NoRoute
    /\ inter = NoInter
    /\ phase = Absent
    /\ fusion = Absent
    /\ qa = Absent
    /\ overall = Absent
    /\ pipeline = Absent

SharedRest ==
    UNCHANGED <<task, searchPc, response, route, inter, phase, fusion, qa, overall, pipeline>>

\* search.py 172-173: a search reaches _run_connector for the connector; the
\* query is in one of the forms get_cache_key folds onto the shared key.
CallBegins(s, q) ==
    /\ shared # Absent
    /\ shared.call[s].pc \in {"idle", "done"}
    /\ shared' = [shared EXCEPT !.call[s] = [IdleCall EXCEPT !.pc = "reading", !.query = q]]
    /\ UNCHANGED <<cache, redisUp>>
    /\ SharedRest

\* search.py 174-179: await get_cached_result(cache_key)
CallReads(s) ==
    /\ shared # Absent
    /\ shared.call[s].pc = "reading"
    /\ LET cached == get_cached_result(get_cache_key("ebay", shared.call[s].query))
       IN IF cached # NoValue
          THEN shared' = [shared EXCEPT !.call[s].pc = "done",
                                        !.call[s].result = CachedResult(cached, "ebay")]
          ELSE shared' = [shared EXCEPT !.call[s].pc = "searching"]
    /\ UNCHANGED <<cache, redisUp>>
    /\ SharedRest

\* search.py 181-185: connector.search returns within the deadline.
CallReturns(s, res) ==
    /\ shared # Absent
    /\ shared.call[s].pc = "searching"
    /\ shared' = [shared EXCEPT !.call[s].pc = "writing",
                                !.call[s].value = res,
                                !.returned = @ \cup {res}]
    /\ UNCHANGED <<cache, redisUp>>
    /\ SharedRest

\* search.py 186-191: await set_cached_result(cache_key, result), then the
\* tags are set on the result in memory.
CallWrites(s) ==
    /\ shared # Absent
    /\ shared.call[s].pc = "writing"
    /\ LET res == shared.call[s].value
           key == get_cache_key("ebay", shared.call[s].query)
       IN /\ cache' = set_cached_result(key, res)
          /\ shared' = [shared EXCEPT
                          !.call[s].pc = "done",
                          !.call[s].result = ReturnedResult(res, "ebay"),
                          !.overwritten =
                              @ \/ (cache[key] # NoValue /\ cache'[key] # cache[key])]
    /\ UNCHANGED redisUp
    /\ SharedRest

\* search.py 193-214: connector.search raises or is cut off at the deadline.
CallFails(s, exc) ==
    /\ shared # Absent
    /\ shared.call[s].pc = "searching"
    /\ shared' = [shared EXCEPT !.call[s].pc = "done",
                                !.call[s].result = RaisedResult(exc, "ebay")]
    /\ UNCHANGED <<cache, redisUp>>
    /\ SharedRest

\* The TTL of the entry lapses.
SharedExpires ==
    /\ shared # Absent
    /\ cache[SharedKey] # NoValue
    /\ cache' = [cache EXCEPT ![SharedKey] = NoValue]
    /\ UNCHANGED <<redisUp, shared>>
    /\ SharedRest

\* Redis becomes unreachable, or reachable again.
SharedRedisFlips ==
    /\ shared # Absent
    /\ redisUp' = ~redisUp
    /\ UNCHANGED <<cache, shared>>
    /\ SharedRest

SharedNext ==
    \/ \E s \in Searches : \E q \in Queries : CallBegins(s, q)
    \/ \E s \in Searches : CallReads(s)
    \/ \E s \in Searches : \E res \in SearchResults : CallReturns(s, res)
    \/ \E s \in Searches : CallWrites(s)
    \/ \E s \in Searches : \E exc \in Exceptions : CallFails(s, exc)
    \/ SharedExpires
    \/ SharedRedisFlips

SharedKeySpec == SharedInit /\ [][SharedNext]_vars

-----------------------------------------------------------------------------
(* The listings of one search, from the connectors to the response
   (search.py 419-604) *)

LowerStr(s) == [i \in 1..Len(s) |-> Lower(s[i])]

\* A MarketListing as a connector hands it over: the listing with its two
\* annotation fields, <<>> for None.
Produced(listing, matched_interchange) ==
    listing @@ [matched_interchange |-> matched_interchange, fitment_status |-> <<>>]

\* The listings the connectors of this search return: two with the same url,
\* one without a price, one that already names an interchange number.
ProducedPool ==
    {Produced(l, <<>>) : l \in {x \in ListingPool : x.url \in {"u1", "u3", "u5"}}}
    \cup {Produced(l, <<"O", "1">>) : l \in {x \in ListingPool : x.url = "u2"}}

\* A listing in the result of a connector task; matched_ic is the
\* _matched_interchange tag of that result, <<>> for a task of the primary
\* search.
ResultItems ==
    {[listing |-> l, matched_ic |-> <<>>] : l \in ProducedPool}
    \cup {[listing |-> l, matched_ic |-> <<"I", "C">>] :
             l \in {x \in ProducedPool : x.source \in {"rockauto", "amazon"}}}

\* The advisor's result: None, or a vehicle make and one recommendation.
NoAdvice == [present |-> FALSE]

AdvisorResults ==
    {NoAdvice,
     [present |-> TRUE, vehicle_make |-> <<"M">>,
      recommendations |-> <<[brand |-> <<"A", "C">>, part_number |-> <<"x">>]>>]}

\* The makes filter_market_listings knows (ranking.py _KNOWN_MAKES), as far as
\* the titles of the model name any.
KNOWN_MAKES == {<<"m">>, <<"x">>}

\* ranking.py 392-396 for the short makes of the model: a whole word.
mentions_make(text_lower, make) == make \in Range(Words(text_lower))

\* Variant: the interchange tag replaces the listing's own.
Annotated_Overwriting(item) ==
    IF item.matched_ic # <<>>
    THEN [item.listing EXCEPT !.matched_interchange = item.matched_ic]
    ELSE item.listing

\* search.py 429-438: the listing is tagged with the interchange number of
\* its task when it has none of its own.
Annotated(item) ==
    IF item.matched_ic # <<>> /\ item.listing.matched_interchange = <<>>
    THEN [item.listing EXCEPT !.matched_interchange = item.matched_ic]
    ELSE item.listing

\* ranking.py 400-491, for an advisor result without a vehicle model: a
\* listing that names another make and not the target make is dropped.
filter_market_listings(listings, analysis) ==
    IF ~analysis.present \/ analysis.vehicle_make = <<>> THEN listings
    ELSE LET make_lower == Strip(LowerStr(analysis.vehicle_make))
             Kept(l) ==
                 \/ mentions_make(LowerStr(l.title), make_lower)
                 \/ \A other \in KNOWN_MAKES \ {make_lower} :
                       ~mentions_make(LowerStr(l.title), other)
         IN SelectSeq(listings, Kept)

\* search.py 494-507: _ai_match
ai_match(listing, analysis) ==
    LET recommended_brands ==
            {Strip(LowerStr(r.brand)) : r \in Range(analysis.recommendations)}
        recommended_pns ==
            {Strip(UpperStr(r.part_number)) : r \in Range(analysis.recommendations)}
    IN \/ LowerStr(listing.brand) \in recommended_brands
       \/ {Strip(UpperStr(p)) : p \in Range(listing.part_numbers)} \cap recommended_pns # {}

\* search.py 527-535: _group_ai_match
group_ai_match(group, analysis) ==
    \/ LowerStr(group.brand) \in
          {Strip(LowerStr(r.brand)) : r \in Range(analysis.recommendations)}
    \/ UpperStr(group.part_number) \in
          {Strip(UpperStr(r.part_number)) : r \in Range(analysis.recommendations)}

\* items.sort(key=lambda m: 0 if match(m) else 1)
MatchesFirst(items, Match(_)) ==
    StableSorted(items, [i \in 1..Len(items) |-> <<IF Match(items[i]) THEN 0 ELSE 1, 1>>],
                 FALSE)

\* grouping.py 184-201
sort_groups(groups, sort) ==
    IF sort = "price_asc"
    THEN StableSorted(groups, [i \in 1..Len(groups) |-> <<groups[i].best_price, 1>>], FALSE)
    ELSE IF sort = "price_desc"
    THEN StableSorted(groups, [i \in 1..Len(groups) |-> <<groups[i].best_price, 1>>], TRUE)
    ELSE StableSorted(groups, [i \in 1..Len(groups) |-> <<groups[i].best_value_score, 1>>],
                      TRUE)

\* check_fitments: what the fitment store knows for the resolved vehicle.
FitmentMaps == {<<>>, << <<"P", "1">> >>}

\* search.py 581-586: the status of the first part number of the listing that
\* the map knows.
WithFitment(listing, fitment_map) ==
    IF \E i \in 1..Len(listing.part_numbers) : listing.part_numbers[i] \in Range(fitment_map)
    THEN [listing EXCEPT !.fitment_status = "confirmed_fit"]
    ELSE listing

PipelineInit ==
    /\ pipeline \in
         [pc : {"gathered"}, results : SeqsUpTo(ResultItems, MaxListings),
          sort : {"relevance", "price_asc"}, advice : AdvisorResults,
          market_listings : {<<>>}, grouped_listings : {<<>>}]
    /\ cache = [k \in AllKeys |-> NoValue]
    /\ redisUp = TRUE
    /\ task = [c \in Connectors |-> IdleTask]
    /\ searchPc = "idle"
    /\ response = NoResponse
    /\ route = NoRoute
    /\ inter = NoInter
    /\ phase = Absent
    /\ fusion = Absent
    /\ qa = Absent
    /\ overall = Absent
    /\ shared = Absent

PipelineRest ==
    UNCHANGED <<cache, redisUp, task, searchPc, response, route, inter, phase, fusion, qa,
                overall, shared>>

\* search.py 419-438: the loop over the gathered results.
CollectListings ==
    /\ pipeline # Absent
    /\ pipeline.pc = "gathered"
    /\ pipeline' = [pipeline EXCEPT
                      !.pc = "collected",
                      !.market_listings =
                          [i \in 1..Len(pipeline.results) |-> Annotated(pipeline.results[i])]]
    /\ PipelineRest

\* search.py 469-550: deduplication, the wrong-vehicle filter, ranking,
\* grouping and the advisor's reordering, up to the await of the community
\* task.
FuseListings ==
    /\ pipeline # Absent
    /\ pipeline.pc = "collected"
    /\ LET advice == pipeline.advice
           unique == deduplicate_listings(pipeline.market_listings)
           filtered == filter_market_listings(unique, advice)
           ranked == rank_listings(filtered, RankQuery, pipeline.sort, NoAnalysis)
           market_listings ==
               IF advice.present /\ advice.recommendations # <<>> /\ ranked # <<>>
               THEN MatchesFirst(ranked, LAMBDA m : ai_match(m, advice))
               ELSE ranked
           sorted_groups == sort_groups(group_listings(market_listings), pipeline.sort)
           grouped_listings ==
               IF advice.present /\ advice.recommendations # <<>> /\ sorted_groups # <<>>
               THEN MatchesFirst(sorted_groups, LAMBDA g : group_ai_match(g, advice))
               ELSE sorted_groups
       IN pipeline' = [pipeline EXCEPT !.pc = "fused",
                                       !.market_listings = market_listings,
                                       !.grouped_listings = grouped_listings]
    /\ PipelineRest

\* search.py 556-604: with a resolved vehicle the listings get their fitment
\* status, then the response is built.
BuildResponse(fitment_map) ==
    /\ pipeline # Absent
    /\ pipeline.pc = "fused"
    /\ pipeline' = [pipeline EXCEPT
                      !.pc = "built",
                      !.market_listings =
                          [i \in 1..Len(@) |-> WithFitment(@[i], fitment_map)]]
    /\ PipelineRest

PipelineNext ==
    \/ CollectListings
    \/ FuseListings
    \/ \E fitment_map \in FitmentMaps : BuildResponse(fitment_map)

PipelineSpec == PipelineInit /\ [][PipelineNext]_vars

-----------------------------------------------------------------------------
Init ==
    /\ cache = [k \in AllKeys |-> NoValue]
    /\ redisUp = TRUE
    /\ task = [c \in Connectors |-> IdleTask]
    /\ searchPc = "idle"
    /\ response = NoResponse
    /\ phase = Absent
    /\ fusion = Absent
    /\ qa = Absent
    /\ overall = Absent
    /\ shared = Absent
    /\ pipeline = Absent
    /\ route = NoRoute
    /\ inter = NoInter

TaskStep(c) ==
    \/ CacheRead(c)
    \/ \E res \in SearchResults : SearchReturns(c, res)
    \/ \E exc \in Exceptions : SearchRaises(c, exc)
    \/ SearchTimesOut(c)
    \/ CacheWrite(c)

Next ==
    \/ \E q \in Queries : StartSearch(q)
    \/ \E c \in Connectors : CacheRead(c)
    \/ \E c \in Connectors, res \in SearchResults : SearchReturns(c, res)
    \/ \E c \in Connectors, exc \in Exceptions : SearchRaises(c, exc)
    \/ \E c \in Connectors : SearchTimesOut(c)
    \/ \E c \in Connectors : CacheWrite(c)
    \/ Join
    \/ \E k \in AllKeys : Expire(k)


Spec == Init /\ [][Next]_vars

\* The event loop keeps running ready coroutines, wait_for deadlines fire,
\* and gather returns once its tasks are done.
FairSpec ==
    /\ Spec
    /\ WF_vars((\E c \in Connectors : TaskStep(c)) \/ Join)

\* The same system with Redis going down and coming back.
OutageNext == Next \/ RedisFlips

OutageSpec == Init /\ [][OutageNext]_vars

-----------------------------------------------------------------------------
(* Claims about _run_connector and the gather loop *)

Settled(c) == task[c].pc = "done"

Missed(c) == Settled(c) /\ task[c].outcome.kind # "hit"

EmptyLists(res) ==
    /\ res.market_listings = <<>>
    /\ res.salvage_hits = <<>>
    /\ res.external_links = <<>>

Urls(items) == [i \in 1..Len(items) |-> items[i].url]

\* C1: on a cache miss _run_connector maps every outcome of connector.search
\* to a result tagged with the connector's source name: a timeout gives
\* status error, empty lists and 'Timed out after Ns'; any other exception
\* gives status error and the exception's message; a return is written to the
\* cache and tagged ok exactly when its error field is empty; a timeout or an
\* exception writes nothing to the cache.
C1_RunConnectorOutcomes ==
    \A c \in Connectors :
        Missed(c) =>
            /\ task[c].result.source = c
            /\ task[c].outcome.kind = "timeout" =>
                  /\ task[c].result.status = "error"
                  /\ EmptyLists(task[c].result)
                  /\ task[c].result.error = <<"Timed out after ", 15, "s">>
                  /\ task[c].write = "none"
            /\ (task[c].outcome.kind = "raise"
                  /\ task[c].outcome.value.kind # "TimeoutError") =>
                  /\ task[c].result.status = "error"
                  /\ task[c].result.error = task[c].outcome.value.msg
                  /\ task[c].write = "none"
            /\ task[c].outcome.kind = "return" =>
                  /\ task[c].write = "ok"
                  /\ task[c].result.status =
                        (IF task[c].outcome.value.error = <<>> THEN "ok" ELSE "error")

Failed(c) == Settled(c) /\ task[c].outcome.kind \in {"timeout", "raise"}

Succeeded(c) ==
    /\ Settled(c)
    /\ task[c].outcome.kind = "return"
    /\ task[c].outcome.value.error = <<>>

WithStatus(entries, status) ==
    {i \in 1..Len(entries) : entries[i].status = status}

\* C2: when the tasks of a search are k failures (timeout or exception) and m
\* successes without an error field, the response has exactly m entries with
\* status ok, k entries with status error and k warnings '{source}: {message}',
\* and every listing of a successful connector is in the aggregate.
C2_FailureCounts ==
    (searchPc = "responded"
        /\ \A c \in Connectors : Failed(c) \/ Succeeded(c)) =>
        LET k == Cardinality({c \in Connectors : Failed(c)})
            m == Cardinality({c \in Connectors : Succeeded(c)})
        IN /\ Cardinality(WithStatus(response.sources_queried, "ok")) = m
           /\ Cardinality(WithStatus(response.sources_queried, "error")) = k
           /\ Len(response.warnings) = k
           /\ \A i \in 1..Len(response.warnings) :
                 \E c \in Connectors :
                    /\ Failed(c)
                    /\ response.warnings[i] = <<c, ": ">> \o task[c].result.error
           /\ \A c \in Connectors :
                 Succeeded(c) =>
                    \A j \in 1..Len(task[c].outcome.value.market_listings) :
                       \E i \in 1..Len(response.market_listings) :
                          response.market_listings[i] =
                             [source |-> c,
                              url |-> task[c].outcome.value.market_listings[j].url]

\* C3: whenever the cache holds a value under connector.get_cache_key(query)
\* when _run_connector reads it, the task returns that value's listings,
\* salvage hits and links with status cached, and connector.search is not
\* invoked for that task.
C3_CacheHitServed ==
    [][\A c \in Connectors :
          LET key == get_cache_key(c, task[c].query) IN
          (task[c].pc = "reading" /\ task'[c].pc # "reading"
              /\ redisUp /\ cache[key] # NoValue) =>
              /\ task'[c].pc = "done"
              /\ task'[c].result.status = "cached"
              /\ task'[c].result.market_listings = cache[key].text.market_listings
              /\ task'[c].result.salvage_hits = cache[key].text.salvage_hits
              /\ task'[c].result.external_links = cache[key].text.external_links
              /\ task'[c].calls = 0]_vars

C3_Witness ==
    \E c \in Connectors :
        /\ Settled(c)
        /\ task[c].result.status = "cached"
        /\ task[c].result.market_listings # <<>>
        /\ task[c].calls = 0

\* C4: after _run_connector fetched a result from connector.search for a
\* (connector, query) pair, and until the TTL of its cache write lapses, a
\* second _run_connector for the pair reads the same listings back from the
\* cache (and so, by the hit path, serves them as cached without a search).
C4_RoundTrip ==
    \A c \in Connectors :
        (Settled(c) /\ task[c].outcome.kind = "return" /\ ~task[c].lapsed) =>
            LET again == get_cached_result(get_cache_key(c, task[c].query)) IN
            /\ again # NoValue
            /\ Urls(again.market_listings)
                  = Urls(task[c].outcome.value.market_listings)
            /\ CachedResult(again, c).status = "cached"

\* C5 (safety): each settled task's status and results are those of its own
\* cache read or its own connector outcome, and a step of one task changes
\* no other task.
C5_OwnOutcome ==
    \A c \in Connectors :
        Settled(c) =>
            /\ task[c].outcome.kind = "hit" =>
                  /\ task[c].result.status = "cached"
                  /\ task[c].result.market_listings
                        = task[c].outcome.value.market_listings
            /\ task[c].outcome.kind = "return" =>
                  /\ task[c].result.status \in {"ok", "error"}
                  /\ task[c].result.status = "ok"
                        <=> task[c].outcome.value.error = <<>>
                  /\ task[c].result.market_listings
                        = task[c].outcome.value.market_listings
            /\ task[c].outcome.kind \in {"raise", "timeout"} =>
                  /\ task[c].result.status = "error"
                  /\ EmptyLists(task[c].result)

C5_StepIsolated ==
    [][(searchPc = "gathering" /\ searchPc' = "gathering") =>
          Cardinality({c \in Connectors : task'[c] # task[c]}) <= 1]_vars

\* C5: the connector tasks of one search run concurrently, each settling on
\* its own deadline: in every interleaving a connector that raises, is slow or
\* hangs changes neither the status nor the results of another, every task
\* eventually settles as ok, error or cached, and the join completes once all
\* tasks have settled.
C5_Concurrent ==
    /\ []C5_OwnOutcome
    /\ C5_StepIsolated
    /\ [](searchPc = "responded" =>
            \A c \in Connectors :
               Settled(c) /\ task[c].result.status \in {"ok", "error", "cached"})
    /\ (searchPc = "gathering") ~> (searchPc = "responded")

C5_Witness ==
    /\ searchPc = "responded"
    /\ \E c, d \in Connectors :
          /\ c # d
          /\ task[c].outcome.kind = "timeout"
          /\ task[d].outcome.kind = "return"
          /\ task[d].result.status = "ok"

-----------------------------------------------------------------------------
(* Claims about routing *)

RanOn(query) ==
    {route.tasks[i].connector :
        i \in {j \in 1..Len(route.tasks) : route.tasks[j].query = query}}

\* Tasks that are neither on the normalized query nor for an interchange or
\* OEM part number: the vehicle-source tasks.
VehicleRuns ==
    {i \in 1..Len(route.tasks) :
        /\ route.tasks[i].query # NormalizedQuery
        /\ route.tasks[i].matched_interchange = <<>>}

FromRegistry(vehicle) ==
    {DOMAIN_TO_CONNECTOR(src.domain) :
        src \in {x \in route.registry.sources :
                    /\ DOMAIN_TO_CONNECTOR(x.domain) \in
                          {"ebay", "rockauto", "row52", "carpart", "resources"}
                    /\ (x.category \in {"used_aggregator", "salvage_yard"}) = vehicle
                    /\ vehicle \/ x.supports_part_number_search}}

\* C7: whatever the source registry holds, _get_connector_routing returns
\* three non-empty sets: each of the part-number and vehicle sets is the one
\* the registry yields, or the fixed default set when the registry cannot be
\* read or yields none, and the always-active set contains 'resources'.
C7_RoutingNeverEmpty ==
    (route # NoRoute /\ route.pc # "analysed") =>
        LET r == route.routing
            pnDefault == {"ebay", "rockauto", "partsouq", "ecstuning", "fcpeuro",
                          "partsgeek", "amazon"}
            vehicleDefault == {"row52", "carpart"}
        IN /\ r.pn # {} /\ r.vehicle # {} /\ r.always # {}
           /\ "resources" \in r.always
           /\ r.pn = (IF ~route.registry.readable \/ FromRegistry(FALSE) = {}
                      THEN pnDefault ELSE FromRegistry(FALSE))
           /\ r.vehicle = (IF ~route.registry.readable \/ FromRegistry(TRUE) = {}
                           THEN vehicleDefault ELSE FromRegistry(TRUE))

C7_Witness ==
    /\ route # NoRoute
    /\ route.pc = "routed"
    /\ route.registry.readable
    /\ route.registry.sources # {}
    /\ route.routing.vehicle = {"ebay"}
    /\ route.routing.pn = {"ebay", "rockauto", "partsouq", "ecstuning", "fcpeuro",
                           "partsgeek", "amazon"}

-----------------------------------------------------------------------------
(* Claims about interchange expansion *)

InBuild == inter # NoInter /\ inter.pc \in {"start", "gathering", "done"}

\* C8: build_interchange_group contacts no provider and returns None unless
\* the query type is PART_NUMBER, interchange is enabled and the analysis has
\* a part number; when it runs, the providers are asked about, and the group
\* is built for, the first part number of the analysis; at most one group is
\* built per search.
C8_InterchangeGuard ==
    InBuild =>
        LET a == inter.analysis
            runs == /\ a.query_type = "PART_NUMBER"
                    /\ inter.settings.interchange_enabled
                    /\ Len(a.part_numbers) >= 1
        IN /\ ~runs => (inter.contacted = {} /\ inter.group = None /\ inter.built = 0)
           /\ \A x \in inter.contacted : x.part_number = a.part_numbers[1]
           /\ inter.group # None => inter.group.primary_part_number = a.part_numbers[1]
           /\ inter.built <= 1

C8_Witness ==
    /\ InBuild
    /\ inter.pc = "done"
    /\ inter.caller = "search_parts"
    /\ inter.analysis.part_numbers = <<"P1", "P2">>
    /\ inter.group # None
    /\ inter.group.primary_part_number = "P1"
    /\ inter.built = 1

\* C9: when every cross-reference provider fails, build_interchange_group
\* returns None: no group, not even an empty one.
C9_AllFailedGivesNone ==
    (InBuild /\ inter.pc = "done"
        /\ \A p \in ProviderSet : inter.outcome[p].kind \in {"failed", "raised"}) =>
        inter.group = None

\* C10: the confidence of a merged group is 0.0, 0.5, 0.7 or 0.9 as the
\* number of merged results holding part numbers or brands is 0, 1, 2 or at
\* least 3, and merging one more result never lowers it.
C10_ConfidenceSteps ==
    (inter # NoInter /\ inter.pc \in {"done", "merged"} /\ inter.group # None) =>
        LET rs == inter.results
            n == Cardinality({i \in 1..Len(rs) :
                                 rs[i].part_numbers # <<>> \/ DOMAIN rs[i].brands # {}})
        IN /\ inter.group.confidence =
                 (CASE n = 0 -> 0 [] n = 1 -> 5 [] n = 2 -> 7 [] OTHER -> 9)
           /\ \A k \in 1..Len(rs) :
                 merge_cross_ref_results(inter.primary_pn, SubSeq(rs, 1, k - 1)).confidence
                    <= merge_cross_ref_results(inter.primary_pn, SubSeq(rs, 1, k)).confidence

C10_Witness ==
    /\ inter # NoInter
    /\ inter.pc = "merged"
    /\ Len(inter.results) = 4
    /\ \A i \in 1..4 : inter.results[i].part_numbers # <<>>
    /\ inter.group.confidence = 9

-----------------------------------------------------------------------------
(* Claims about cache failures *)

\* The warnings of the response that name connector c.
WarningsFor(c) ==
    {i \in 1..Len(response.warnings) : response.warnings[i][1] = c}

EntryOf(c) ==
    response.sources_queried[CHOOSE i \in 1..NumConnectors : ConnectorNames[i] = c]

\* C19: a cache failure is never surfaced.  A task whose cache read failed
\* went on to call connector.search; a task whose cache write failed returns
\* the connector's lists with the status its error field alone gives; and in
\* the response a connector that returned without an error has an ok entry
\* and no warning, whatever the cache did.
C19_CacheFailureNotSurfaced ==
    /\ \A c \in Connectors :
          /\ task[c].read = "failed" => task[c].calls = 1 /\ task[c].pc # "reading"
          /\ (Settled(c) /\ task[c].outcome.kind = "return") =>
                /\ task[c].result.status =
                      (IF task[c].outcome.value.error = <<>> THEN "ok" ELSE "error")
                /\ task[c].result.market_listings = task[c].outcome.value.market_listings
                /\ task[c].result.error = task[c].outcome.value.error
    /\ searchPc = "responded" =>
          \A c \in Connectors :
             (task[c].outcome.kind = "return" /\ task[c].outcome.value.error = <<>>) =>
                /\ EntryOf(c).status = "ok"
                /\ EntryOf(c).details = <<"Success">>
                /\ WarningsFor(c) = {}

C19_Witness ==
    /\ searchPc = "responded"
    /\ \E c \in Connectors :
          /\ task[c].read = "failed"
          /\ task[c].write = "unreachable"
          /\ task[c].result.status = "ok"
          /\ WarningsFor(c) = {}

-----------------------------------------------------------------------------
(* Claims about failing cross-reference providers *)

\* The results of the providers whose fetch and parsing worked, in provider
\* order.
SucceededResults ==
    LET ps == SelectSeq(Providers, LAMBDA p : inter.outcome[p].kind = "returned")
    IN [i \in 1..Len(ps) |-> inter.outcome[ps[i]].result]

\* C20: when some providers fail and at least one succeeds,
\* build_interchange_group returns the merge of the results of exactly the
\* providers that succeeded.
C20_FailedProvidersExcluded ==
    (InBuild /\ inter.pc = "done"
        /\ \E p \in ProviderSet : inter.outcome[p].kind = "returned") =>
        inter.group = merge_cross_ref_results(inter.primary_pn, SucceededResults)

-----------------------------------------------------------------------------
(* Claims about the subtasks of one search *)

\* C17: the connector searches, the provider fan-out and the auxiliary
\* fetches of a search are launched together: no connector search is still
\* to start while a provider or the advisor is in flight.
C17_LaunchedTogether ==
    phase # Absent =>
        \A c \in ConnectorTasks :
           phase.sub[c] = "none" =>
              \A t \in ProviderTasks \cup {Advisor} : phase.sub[t] # "running"

\* C18: once the request is cancelled no subtask of the search is in flight,
\* and no response is returned.
C18_CancelledTogether ==
    (phase # Absent /\ phase.pc = "cancelled") =>
        /\ \A t \in Subtasks : phase.sub[t] # "running"
        /\ ~phase.returned

-----------------------------------------------------------------------------
(* Result fusion claims *)

Called(name) == fusion # Absent /\ name \in fusion.called

\* The key deduplication compares: the URL of a listing, (source, URL) of a
\* link.
DedupKey(item) ==
    IF fusion.kind = "listings" THEN <<item.url>> ELSE <<item.source, item.url>>

\* The positions of the input whose key occurs at no earlier position.
FirstOccurrences ==
    {i \in 1..Len(fusion.input) :
        \A j \in 1..(i - 1) : DedupKey(fusion.input[j]) # DedupKey(fusion.input[i])}

\* C11: the output of deduplicate_listings has pairwise distinct URLs and the
\* output of deduplicate_links pairwise distinct (source, URL) pairs, and the
\* output is the input restricted to the first occurrence of each key, in
\* input order (so a link whose URL was seen under another source is kept).
C11_FirstOccurrencesKept ==
    (Called("deduplicate_listings") \/ Called("deduplicate_links")) =>
        LET out == fusion.unique IN
        /\ \A p, q \in 1..Len(out) : p # q => DedupKey(out[p]) # DedupKey(out[q])
        /\ Len(out) = Cardinality(FirstOccurrences)
        /\ \A i \in FirstOccurrences :
              out[Cardinality({j \in FirstOccurrences : j <= i})] = fusion.input[i]

C11_Witness ==
    /\ Called("deduplicate_links")
    /\ Len(fusion.input) = 3
    /\ Len(fusion.unique) = 2
    /\ fusion.unique[1].url = fusion.unique[2].url
    /\ fusion.unique[1].source # fusion.unique[2].source

\* The key rank_listings sorts by in the mode of the call.
RankKey(listing) ==
    CASE fusion.sort = "price_asc" -> price_asc_key(listing)
      [] fusion.sort = "price_desc" -> <<listing.price, 1>>
      [] fusion.sort = "value" -> ranking_value_score(listing)
      [] OTHER -> <<relevance_score(listing, RankQuery, fusion.analysis), 1>>

\* a may stand before b: ascending for price_asc, descending otherwise.
RankOrdered(a, b) ==
    IF fusion.sort = "price_asc"
    THEN ~KeyLess(RankKey(b), RankKey(a))
    ELSE ~KeyLess(RankKey(a), RankKey(b))

SameRankKey(a, b) == ~KeyLess(RankKey(a), RankKey(b)) /\ ~KeyLess(RankKey(b), RankKey(a))

Rearrangements(n) ==
    {f \in [1..n -> 1..n] : \A i, j \in 1..n : i # j => f[i] # f[j]}

\* The output is the input rearranged, ordered by the mode's key, listings of
\* equal key in input order.
StablyRanked ==
    /\ Len(fusion.ranked) = Len(fusion.input)
    /\ \E f \in Rearrangements(Len(fusion.input)) :
          /\ \A p \in 1..Len(fusion.input) : fusion.ranked[p] = fusion.input[f[p]]
          /\ \A p, q \in 1..Len(fusion.input) :
                p < q =>
                   /\ RankOrdered(fusion.input[f[p]], fusion.input[f[q]])
                   /\ SameRankKey(fusion.input[f[p]], fusion.input[f[q]]) => f[p] < f[q]

\* C12 as stated: rank_listings returns a stable rearrangement of its input
\* by the mode's key; in price_asc the prices are non-decreasing and every
\* listing with price 0 comes after all listings with a positive price; in
\* price_desc prices, in value mode value scores and in relevance mode
\* relevance scores are non-increasing.
C12_AsStated ==
    Called("rank_listings") =>
        LET out == fusion.ranked IN
        /\ StablyRanked
        /\ fusion.sort = "price_asc" =>
              /\ \A p, q \in 1..Len(out) : p < q => out[p].price <= out[q].price
              /\ \A p, q \in 1..Len(out) :
                    (out[p].price = 0 /\ out[q].price > 0) => q < p
        /\ fusion.sort # "price_asc" =>
              \A p, q \in 1..Len(out) : p < q => RankOrdered(out[p], out[q])

\* C12, amended: rank_listings returns a stable rearrangement of its input by
\* the mode's key; in price_asc the prices of the listings with a positive
\* price are non-decreasing and every listing with price 0 comes after all of
\* them; in price_desc prices, in value mode value scores and in relevance
\* mode relevance scores are non-increasing.
C12_RankedByModeKey ==
    Called("rank_listings") =>
        LET out == fusion.ranked IN
        /\ StablyRanked
        /\ fusion.sort = "price_asc" =>
              /\ \A p, q \in 1..Len(out) :
                    (p < q /\ out[p].price > 0 /\ out[q].price > 0) =>
                       out[p].price <= out[q].price
              /\ \A p, q \in 1..Len(out) :
                    (out[p].price = 0 /\ out[q].price > 0) => q < p
        /\ fusion.sort # "price_asc" =>
              \A p, q \in 1..Len(out) : p < q => RankOrdered(out[p], out[q])

C12_Witness ==
    /\ Called("rank_listings")
    /\ fusion.sort = "price_asc"
    /\ Len(fusion.input) = 3
    /\ fusion.input[1].price = 0
    /\ fusion.ranked[3].price = 0
    /\ fusion.ranked[1].price = fusion.ranked[2].price
    /\ fusion.ranked[1] # fusion.ranked[2]

\* The input listings with a positive price, in input order.
Priced == SelectSeq(fusion.input, LAMBDA l : l.price > 0)

\* s without whitespace, dashes and dots, uppercased.
RECURSIVE Normalized(_)
Normalized(s) ==
    IF s = <<>> THEN <<>>
    ELSE IF Head(s) \in {" ", "-", "."} THEN Normalized(Tail(s))
    ELSE <<Upper(Head(s))>> \o Normalized(Tail(s))

HasKey(listing) == listing.brand # <<>> /\ listing.part_numbers # <<>>

NormalizedKey(listing) ==
    <<Normalized(listing.brand), Normalized(listing.part_numbers[1])>>

\* The offers of all groups, as <<group, position>>.
OfferPositions ==
    {x \in (1..MaxListings) \X (1..MaxListings) :
        x[1] <= Len(fusion.groups) /\ x[2] <= Len(fusion.groups[x[1]].offers)}

OfferAt(x) == fusion.groups[x[1]].offers[x[2]]

\* The offer was made from the listing.
OfferFrom(offer, listing) ==
    /\ offer.source = listing.source
    /\ offer.url = listing.url
    /\ offer.title = listing.title
    /\ offer.price = listing.price
    /\ offer.shipping_cost = listing.shipping_cost

RECURSIVE SumOfferCounts(_)
SumOfferCounts(groups) ==
    IF groups = <<>> THEN 0 ELSE Head(groups).offer_count + SumOfferCounts(Tail(groups))

\* C13: group_listings partitions exactly the input listings with price > 0:
\* no offer has price <= 0, the offer_count values sum to the number of
\* positive-price inputs, and the offers correspond one to one to those
\* listings so that two listings that both have a brand and part numbers are
\* in the same group exactly when their normalized keys are equal, and a
\* listing lacking a brand or part numbers is alone in a single-offer group.
C13_GroupsPartitionPriced ==
    Called("group_listings") =>
        /\ \A x \in OfferPositions : OfferAt(x).price > 0
        /\ SumOfferCounts(fusion.groups) = Len(Priced)
        /\ \E place \in [1..Len(Priced) -> OfferPositions] :
              /\ \A i, j \in 1..Len(Priced) : i # j => place[i] # place[j]
              /\ \A x \in OfferPositions : \E i \in 1..Len(Priced) : place[i] = x
              /\ \A i \in 1..Len(Priced) : OfferFrom(OfferAt(place[i]), Priced[i])
              /\ \A i, j \in 1..Len(Priced) :
                    (HasKey(Priced[i]) /\ HasKey(Priced[j])) =>
                       (place[i][1] = place[j][1]
                           <=> NormalizedKey(Priced[i]) = NormalizedKey(Priced[j]))
              /\ \A i \in 1..Len(Priced) :
                    ~HasKey(Priced[i]) =>
                       /\ fusion.groups[place[i][1]].offer_count = 1
                       /\ \A j \in 1..Len(Priced) : j # i => place[j][1] # place[i][1]

C13_Witness ==
    /\ Called("group_listings")
    /\ Len(Priced) = 3
    /\ Len(fusion.groups) = 2
    /\ \E g \in 1..2 :
          /\ fusion.groups[g].offer_count = 2
          /\ \E i, j \in 1..3 :
                /\ HasKey(Priced[i]) /\ HasKey(Priced[j])
                /\ Priced[i].brand # Priced[j].brand
                /\ Priced[i].part_numbers[1] # Priced[j].part_numbers[1]
                /\ NormalizedKey(Priced[i]) = NormalizedKey(Priced[j])
    /\ \E i \in 1..3 : ~HasKey(Priced[i])

\* price + max(shipping_cost, 0), a missing shipping cost counted as 0.
PricePlusShipping(offer) ==
    offer.price
    + (IF offer.shipping_cost = <<>> THEN 0
       ELSE IF offer.shipping_cost[1] > 0 THEN offer.shipping_cost[1] ELSE 0)

\* The nearest whole cent to an amount.
NearestCent(amount) ==
    CHOOSE c \in {10 * (amount \div 10), 10 * (amount \div 10) + 10} :
        2 * (IF c > amount THEN c - amount ELSE amount - c) <= 10
        /\ (2 * (amount - 10 * (amount \div 10)) = 10 => (c \div 10) % 2 = 0)

\* What C14 says of a group, given what total_cost is to equal.
GroupPricesAre(group, Cost(_)) ==
    LET offers == group.offers
        costs == {offers[k].total_cost : k \in 1..Len(offers)}
    IN /\ \A k \in 1..Len(offers) : offers[k].total_cost = Cost(offers[k])
       /\ \A k \in 1..(Len(offers) - 1) : offers[k].total_cost <= offers[k + 1].total_cost
       /\ group.best_price = offers[1].total_cost
       /\ group.price_range.low = Min(costs)
       /\ group.price_range.high = Max(costs)
       /\ group.offer_count = Len(offers)

\* The example of C14: brand Bo, part number P1, at price 30 with shipping 5
\* and at price 32 with shipping 0.
IsExample ==
    /\ Len(fusion.input) = 2
    /\ {<<fusion.input[i].price, fusion.input[i].shipping_cost>> : i \in 1..2}
          = {<<Dollars(30), <<Dollars(5)>> >>, <<Dollars(32), <<0>> >>}
    /\ \A i \in 1..2 : HasKey(fusion.input[i])
    /\ NormalizedKey(fusion.input[1]) = NormalizedKey(fusion.input[2])

ExampleGrouped ==
    /\ Len(fusion.groups) = 1
    /\ fusion.groups[1].offer_count = 2
    /\ fusion.groups[1].best_price = Dollars(32)
    /\ fusion.groups[1].price_range = [low |-> Dollars(32), high |-> Dollars(35)]

\* C14 as stated: in every group each offer's total_cost is price +
\* max(shipping_cost, 0), offers are in non-decreasing total_cost order,
\* best_price is the first offer's total_cost, price_range is the minimum and
\* maximum total_cost, offer_count is the number of offers; the example
\* gives one group of two offers, best_price 32, price_range 32..35.
C14_AsStated ==
    Called("group_listings") =>
        /\ \A g \in 1..Len(fusion.groups) :
              GroupPricesAre(fusion.groups[g], PricePlusShipping)
        /\ IsExample => ExampleGrouped

\* C14, amended: as stated, with each offer's total_cost being price +
\* max(shipping_cost, 0) rounded to the cent.
C14_GroupPrices ==
    Called("group_listings") =>
        LET RoundedCost(offer) == NearestCent(PricePlusShipping(offer)) IN
        /\ \A g \in 1..Len(fusion.groups) :
              GroupPricesAre(fusion.groups[g], RoundedCost)
        /\ IsExample => ExampleGrouped

C14_Witness ==
    /\ Called("group_listings")
    /\ IsExample
    /\ fusion.input[1].price = Dollars(30)
    /\ fusion.groups[1].offers[1].price = Dollars(32)
    /\ fusion.groups[1].offers[2].total_cost = Dollars(35)

-----------------------------------------------------------------------------
(* Query analysis claims *)

Analysed == qa # Absent /\ qa.result # NotAnalysed

\* The query as analyze_query normalizes it.
NormalizedText == Strip(UpperStr(qa.query))

\* The queries the specification gives as examples.
PartNumberExample ==
    <<"9", "5", "1", "-", "3", "7", "5",
      "-", "0", "4", "2", "-", "0", "4">>

KeywordExample == <<"F", "I", "L", "T", "E", "R">>

VehiclePartExample ==
    <<"2", "0", "1", "5", " ", "H", "o", "n", "d", "a", " ", "C", "i",
      "v", "i", "c", " ", "b", "r", "a", "k", "e", " ", "p", "a", "d", "s">>

KeywordsExample ==
    <<"c", "e", "r", "a", "m", "i", "c", " ", "b",
      "r", "a", "k", "e", " ", "p", "a", "d", "s">>

\* C15: analyze_query classifies a query as PART_NUMBER exactly when at least
\* one part number is extracted and nothing meaningful remains once the
\* extracted part numbers and the noise words are removed; a query whose
\* words are all part-type keywords or makes is never PART_NUMBER;
\* '951-375-042-04' is PART_NUMBER and 'FILTER' is not.
C15_PartNumberIffNothingRemains ==
    Analysed =>
        /\ qa.result.query_type = "part_number"
              <=> /\ qa.result.part_numbers # <<>>
                  /\ meaningful_words(NormalizedText, qa.result.part_numbers) = <<>>
        /\ (\A w \in Range(Words(NormalizedText)) : w \in PART_KEYWORDS \cup MAKES)
              => qa.result.query_type # "part_number"
        /\ qa.query = PartNumberExample => qa.result.query_type = "part_number"
        /\ qa.query = KeywordExample => qa.result.query_type # "part_number"

\* C16: for every query not classified PART_NUMBER, analyze_query returns
\* VEHICLE_PART if and only if a vehicle hint is detected and KEYWORDS
\* otherwise, so a KEYWORDS analysis has no vehicle hint, and the analysis
\* has one of the three types; '2015 Honda Civic brake pads' gives
\* VEHICLE_PART with a hint containing Honda and Civic and 'ceramic brake
\* pads' gives KEYWORDS.
C16_VehiclePartIffHint ==
    Analysed =>
        /\ qa.result.query_type \in {"part_number", "vehicle_part", "keywords"}
        /\ qa.result.query_type # "part_number" =>
              /\ qa.result.query_type = "vehicle_part" <=> qa.result.vehicle_hint # <<>>
              /\ qa.result.query_type = "keywords" => qa.result.vehicle_hint = <<>>
        /\ qa.query = VehiclePartExample =>
              /\ qa.result.query_type = "vehicle_part"
              /\ Contains(qa.result.vehicle_hint, <<"H", "o", "n", "d", "a">>)
              /\ Contains(qa.result.vehicle_hint, <<"C", "i", "v", "i", "c">>)
        /\ qa.query = KeywordsExample => qa.result.query_type = "keywords"

C16_Witness ==
    /\ Analysed
    /\ qa.query = VehiclePartExample
    /\ qa.result.query_type = "vehicle_part"
    /\ qa.result.vehicle_hint = SubSeq(VehiclePartExample, 1, 16)

-----------------------------------------------------------------------------
(* Claims about the merged interchange group *)

\* _merge_cross_ref_results has returned a group for inter.results.
Merged == inter # NoInter /\ inter.pc \in {"done", "merged"} /\ inter.group # None

\* The part numbers the merged providers listed.
ListedNumbers ==
    UNION {Range(inter.results[i].part_numbers) : i \in 1..Len(inter.results)}

\* The part numbers that some merged provider listed for the brand.
ListedFor(brand) ==
    UNION {Range(inter.results[i].brands[brand]) :
              i \in {j \in 1..Len(inter.results) : brand \in DOMAIN inter.results[j].brands}}

\* C21: in a merged group interchange_numbers holds, once each, exactly the
\* part numbers the providers listed other than the primary part number (in
\* whatever case a provider wrote it), and brands maps each brand a provider
\* named to the union of the part numbers listed for it.
C21_UnionWithoutPrimary ==
    Merged =>
        LET numbers == inter.group.interchange_numbers IN
        /\ \A i, j \in 1..Len(numbers) : i # j => numbers[i] # numbers[j]
        /\ Range(numbers)
              = {pn \in ListedNumbers : UpperStr(<<pn>>) # UpperStr(<<inter.primary_pn>>)}
        /\ inter.primary_pn \notin Range(numbers)
        /\ DOMAIN inter.group.brands
              = UNION {DOMAIN inter.results[i].brands : i \in 1..Len(inter.results)}
        /\ \A b \in DOMAIN inter.group.brands :
              /\ Range(inter.group.brands[b]) = ListedFor(b)
              /\ Len(inter.group.brands[b]) = Cardinality(ListedFor(b))

C21_Witness ==
    /\ Merged
    /\ inter.primary_pn \in ListedNumbers
    /\ \E i, j \in 1..Len(inter.results) :
          /\ i # j
          /\ Range(inter.results[i].part_numbers) \cap Range(inter.results[j].part_numbers) # {}
    /\ inter.group.interchange_numbers = <<"A1">>
    /\ inter.group.brands = [b \in {"Meyle"} |-> <<"A1", "P1">>]

\* The providers whose result reached the merge, in priority order.
MergedProviders ==
    SelectSeq(Providers, LAMBDA p : inter.outcome[p].kind # "raised")

\* The value of the first provider, in priority order, that supplies one.
RECURSIVE FirstSupplied(_, _)
FirstSupplied(providers, field) ==
    IF providers = <<>> THEN ""
    ELSE IF inter.outcome[Head(providers)].result[field] # ""
         THEN inter.outcome[Head(providers)].result[field]
         ELSE FirstSupplied(Tail(providers), field)

\* C22: the merged group's vehicle fitment and part description are those of
\* the first provider in the order fcpeuro, rockauto, parts-crossreference
\* that supplies a value, in whatever order the providers finished.
C22_FirstProviderWins ==
    (Merged /\ inter.pc = "done") =>
        /\ inter.group.vehicle_fitment = FirstSupplied(MergedProviders, "vehicle_hint")
        /\ inter.group.part_description = FirstSupplied(MergedProviders, "part_description")

C22_Witness ==
    /\ Merged
    /\ inter.finished = <<"parts-crossreference", "rockauto", "fcpeuro">>
    /\ inter.outcome["parts-crossreference"].result.vehicle_hint = "Porsche 924"
    /\ inter.outcome["rockauto"].result.part_description = "Motor Mount"
    /\ inter.group.vehicle_fitment = "Porsche 944"
    /\ inter.group.part_description = "Engine Mount"

-----------------------------------------------------------------------------
(* Claims about the vehicle hint *)

\* The characters that separate the vehicle from what follows it.
Separators == {",", ";", "/", "|"}

\* The text before the first separator.
BeforeSeparator(text) ==
    LET at == {i \in 1..Len(text) : text[i] \in Separators}
    IN IF at = {} THEN text
       ELSE SubSeq(text, 1, (CHOOSE i \in at : \A j \in at : i <= j) - 1)

\* Where the first year of the normalized query starts, 0 without a year.
FirstYear ==
    LET years == {i \in 1..Len(NormalizedText) : YearAt(NormalizedText, i)}
    IN IF years = {} THEN 0 ELSE CHOOSE i \in years : \A j \in years : i <= j

AfterYear == Strip(SubSeq(NormalizedText, FirstYear + 4, Len(NormalizedText)))

\* A year is found and a known make follows it immediately.
YearThenMake ==
    /\ Analysed
    /\ FirstYear # 0
    /\ \E m \in MAKES : StartsWith(AfterYear, m)

MakeAfterYear == Longest({m \in MAKES : StartsWith(AfterYear, m)})

AfterMake == SubSeq(AfterYear, Len(MakeAfterYear) + 1, Len(AfterYear))

\* The year, the make and the tokens of text up to the first part-type
\* keyword, as the hint writes them.
HintOver(text) ==
    Title(JoinWords(<<SubSeq(NormalizedText, FirstYear, FirstYear + 3), MakeAfterYear>>
                    \o ModelWords(Words(Strip(text)))))

\* C24: when a year and, right after it, a known make are found, the vehicle
\* hint is the year, the make and the tokens after the make up to the first
\* part-type keyword or separator; no keyword, no separator and nothing after
\* them is in the hint.
C24_HintStopsAtKeywordOrSeparator ==
    YearThenMake =>
        LET hint == qa.result.vehicle_hint
        IN /\ hint = HintOver(BeforeSeparator(AfterMake))
           /\ \A i \in 1..Len(hint) : hint[i] \notin Separators
           /\ \A w \in Range(Words(hint)) : UpperStr(w) \notin PART_KEYWORDS

\* The same on the queries that hold no separator: the tokens up to the first
\* part-type keyword.
C24_HintStopsAtKeyword ==
    (YearThenMake /\ BeforeSeparator(NormalizedText) = NormalizedText) =>
        LET hint == qa.result.vehicle_hint
        IN /\ hint = HintOver(AfterMake)
           /\ \A w \in Range(Words(hint)) : UpperStr(w) \notin PART_KEYWORDS

-----------------------------------------------------------------------------
(* Claims about the warnings of a response *)

\* The warnings of the response that name the source of an entry.
WarningsAbout(entry) ==
    {j \in 1..Len(response.warnings) :
        SubSeq(response.warnings[j], 1, 2) = <<entry.source, ": ">>}

\* C28: in every response the warnings correspond one-to-one with the
\* sources_queried entries of status error: an entry of status ok or cached
\* has no warning and an entry of status error has exactly one.
C28_WarningsMatchErrors ==
    (searchPc = "responded" /\ response # NoResponse) =>
        /\ \A i \in 1..Len(response.sources_queried) :
              LET entry == response.sources_queried[i]
              IN Cardinality(WarningsAbout(entry)) =
                    (IF entry.status = "error" THEN 1 ELSE 0)
        /\ Len(response.warnings) =
              Cardinality({i \in 1..Len(response.sources_queried) :
                              response.sources_queried[i].status = "error"})

\* The first half on cached entries alone: an entry of status cached has no
\* warning.
C28_CachedEntryWithWarning ==
    (searchPc = "responded" /\ response # NoResponse) =>
        \A i \in 1..Len(response.sources_queried) :
           response.sources_queried[i].status = "cached" =>
              WarningsAbout(response.sources_queried[i]) = {}

-----------------------------------------------------------------------------
(* Claims about the overall response cache *)

ServedFromCache ==
    overall # Absent /\ overall.pc = "responded" /\ overall.response.cached

\* C29: a connector failure is not replayed from a cache: a response served
\* from the cache, for which no connector is invoked, holds no error entry and
\* no warning of an earlier search.
C29_FailureNotReplayed ==
    ServedFromCache =>
        /\ \A i \in 1..Len(overall.response.sources_queried) :
              overall.response.sources_queried[i].status # "error"
        /\ overall.response.warnings = <<>>

\* The parameters of a request that influence the response.
Parameters(request) ==
    <<normalize_query(request.query), request.sort, request.zip_code,
      request.max_results, request.vehicle_make>>

\* C30: a request is served a stored response only if that response was
\* computed for a request with the same normalized query, sort, zip code,
\* max_results and vehicle.
C30_SharedOnlyIfSameParameters ==
    ServedFromCache =>
        Parameters(overall.origin[overall_cache_key(overall.request)])
            = Parameters(overall.request)

-----------------------------------------------------------------------------
(* Claims about concurrent use of the cache *)

\* A step in which search s completes its cache write.
Writes(s) == shared.call[s].pc = "writing" /\ shared'.call[s].pc = "done"

\* C26: with searches reading and writing the same connector cache key in
\* any interleaving and no lock, the entry is always absent or the complete
\* result one connector invocation returned for the key; a write leaves
\* exactly the written result, so repeating it changes nothing.
C26_EntryIsOneResult ==
    /\ [](shared # Absent =>
            \/ cache[SharedKey] = NoValue
            \/ \E res \in shared.returned :
                  /\ cache[SharedKey] = JsonDumps(res)
                  /\ JsonLoads(cache[SharedKey]) \in SearchResults)
    /\ [][shared # Absent =>
            \A s \in Searches :
               (Writes(s) /\ cache' # cache) =>
                  /\ JsonLoads(cache'[SharedKey]) = shared.call[s].value
                  /\ [cache' EXCEPT ![SharedKey] = JsonDumps(shared.call[s].value)]
                        = cache']_vars

C26_Witness ==
    /\ shared # Absent
    /\ shared.overwritten
    /\ \A s \in Searches : shared.call[s].pc = "done" /\ shared.call[s].result.status # "cached"
    /\ shared.call[1].value # shared.call[2].value
    /\ cache[SharedKey] = JsonDumps(shared.call[2].value)

-----------------------------------------------------------------------------
(* Claims about the listings of a response *)

ListingsCollected == pipeline # Absent /\ pipeline.pc \in {"collected", "fused", "built"}

Responded == pipeline # Absent /\ pipeline.pc = "built"

\* The fields of a listing the pipeline has no business with.
ProducedFields ==
    {"source", "url", "title", "price", "shipping_cost", "brand", "part_numbers",
     "condition", "image_url"}

\* listing is what the connector returned as item, annotated at most.
AnnotationOf(listing, item) ==
    /\ \A f \in ProducedFields : listing[f] = item.listing[f]
    /\ \/ listing.matched_interchange = item.listing.matched_interchange
       \/ /\ item.listing.matched_interchange = <<>>
          /\ listing.matched_interchange = item.matched_ic

\* C25: from the connector to the response the pipeline changes no field of
\* a listing but matched_interchange and fitment_status: price, title and url
\* are the connector's, and matched_interchange is set only where it was
\* empty.
C25_OnlyAnnotated ==
    ListingsCollected =>
        \A i \in 1..Len(pipeline.market_listings) :
           \E j \in 1..Len(pipeline.results) :
              AnnotationOf(pipeline.market_listings[i], pipeline.results[j])

C25_Witness ==
    /\ Responded
    /\ \E j \in 1..Len(pipeline.results) :
          /\ pipeline.results[j].matched_ic = <<"I", "C">>
          /\ pipeline.results[j].listing.matched_interchange = <<"O", "1">>
    /\ \E i, k \in 1..Len(pipeline.market_listings) :
          /\ pipeline.market_listings[i].matched_interchange = <<"O", "1">>
          /\ pipeline.market_listings[k].matched_interchange = <<"I", "C">>
          /\ pipeline.market_listings[k].fitment_status = "confirmed_fit"

\* The offers of the response: <<group, position>>.
ResponseOffers ==
    {<<g, k>> \in (1..MaxListings + 1) \X (1..MaxListings + 1) :
        g <= Len(pipeline.grouped_listings)
        /\ k <= Len(pipeline.grouped_listings[g].offers)}

OfferOf(at) == pipeline.grouped_listings[at[1]].offers[at[2]]

\* C27: in every response no two market listings share a url, every offer
\* of grouped_listings comes from a market listing of the response with
\* price > 0, and no market listing is in more than one offer.
C27_ResponseListingsConsistent ==
    Responded =>
        LET listings == pipeline.market_listings IN
        /\ \A i, j \in 1..Len(listings) : i # j => listings[i].url # listings[j].url
        /\ \A at \in ResponseOffers :
              \E i \in 1..Len(listings) :
                 /\ listings[i].price > 0
                 /\ listings[i].url = OfferOf(at).url
                 /\ listings[i].source = OfferOf(at).source
                 /\ listings[i].price = OfferOf(at).price
                 /\ listings[i].title = OfferOf(at).title
        /\ \A i \in 1..Len(listings) :
              Cardinality({at \in ResponseOffers : OfferOf(at).url = listings[i].url}) <= 1

C27_Witness ==
    /\ Responded
    /\ \E i, j \in 1..Len(pipeline.results) :
          /\ i # j
          /\ pipeline.results[i].listing.url = pipeline.results[j].listing.url
          /\ pipeline.results[i].listing.source # pipeline.results[j].listing.source
    /\ \E i \in 1..Len(pipeline.market_listings) : pipeline.market_listings[i].price = 0
    /\ ResponseOffers # {}

=============================================================================
